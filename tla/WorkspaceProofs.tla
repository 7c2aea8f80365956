---------------------------- MODULE WorkspaceProofs ----------------------------
(***************************************************************************)
(* Proofs about BuildDiagnostics and about parts of Workspace, for any     *)
(* files, diagnostics, settings, documents, launches and bounds.           *)
(*                                                                         *)
(* Builds.  That an open file shows only what the build alone knows is not *)
(* inductive: a report leaves the files it does not name as they are, so   *)
(* it must be known that these show nothing live.  They do not, because    *)
(* buildStarted has cleared them since, and a file that shows something    *)
(* live is one the last report names.  While no file was opened, what a    *)
(* report displays has every diagnostic with a code, and nothing of the    *)
(* reports before: it only adds to files that buildStarted has cleared.    *)
(*                                                                         *)
(* The survey: a choice is never without its key in the global state, and  *)
(* a window that still asks has not chosen.                                *)
(*                                                                         *)
(* Edits: the changes of a document are told of in their order, so that    *)
(* what is asked for is never ahead of what the server knows; the edit of  *)
(* a command is asked for once at a time, so that it is applied once.      *)
(*                                                                         *)
(* Sessions: every launch carries what was resolved of it so far, and one  *)
(* that waits past the substitution of variables knows the pipe of C# Dev  *)
(* Kit, is told of it or was resolved early; what listens for a companion  *)
(* counts with those started.                                              *)
(*                                                                         *)
(* Documents that are no files: what is under way for one is what it shows *)
(* or will show, by the kind of the document.                              *)
(*                                                                         *)
(* Problems of OmniSharp.  With nothing under way the entry of a document  *)
(* is of its text because none is ever forgotten, those apart whose last    *)
(* check failed or was answered out of order: a check of it is still     *)
(* to be asked for, or the last that covers it finds its text, and counts  *)
(* when all that count are over.  Answers come in any order, so a check    *)
(* that another overtook is behind none that was not.                      *)
(***************************************************************************)
EXTENDS Workspace, FiniteSetTheorems, SequenceTheorems, TLAPS

-----------------------------------------------------------------------------
(* The diagnostics of builds.                                                *)

\* Between the start of a build and its report nothing live is displayed.
ClearedByBuild ==
    build \in {"building", "awaiting"} => \A f \in Files : OnlyBuildKnows(f)

\* A file that the last report does not name shows nothing live.
LiveIsReported ==
    \A f \in Files : f \notin DOMAIN all => OnlyBuildKnows(f)

IInv == TypeOK /\ ClearedByBuild /\ LiveIsReported /\ OpenFilesShowBuildErrors

-----------------------------------------------------------------------------
\* filterDiagnosticsFromBuild lists diagnostics of its list, by one of its parts.
LEMMA FilterType ==
    ASSUME NEW list \in SUBSET Diags, NEW ids, NEW isOpen
    PROVE  Filter(list, ids, isOpen) \in SUBSET (Diags \X Parts)
BY DEF Filter, Parts, IsProjectSystem, IsAnalyzer, IsCompiler

\* For an open file it lists nothing of a scope that is live.
LEMMA FilterOfOpen ==
    ASSUME NEW list, NEW ids, NEW p \in Filter(list, ids, TRUE)
    PROVE  /\ p[2] = "analyzer" => analyzerScope = "none"
           /\ p[2] = "compiler" => compilerScope = "none"
BY DEF Filter, NotLive

\* What a report says of a file are diagnostics.
LEMMA ReportsAreTyped ==
    ASSUME NEW r \in Reports PROVE IsReport(r)
BY DiagnosticsAssumption DEF IsReport

\* No build was started yet, and nothing is displayed.
LEMMA InitIInv == Init => IInv
<1> SUFFICES ASSUME Init PROVE IInv
    OBVIOUS
<1>1. TypeOK
    BY DiagnosticsAssumption DEF Init, TypeOK, NoReport, IsReport, AnalysisSettings
<1>2. \A f \in Files : OnlyBuildKnows(f)
    BY DEF Init, OnlyBuildKnows
<1>. QED BY <1>1, <1>2 DEF IInv, ClearedByBuild, LiveIsReported, OpenFilesShowBuildErrors, Init

-----------------------------------------------------------------------------
\* setBuildDiagnostics keeps the invariant.
LEMMA SetBuildDiagnosticsIInv ==
    ASSUME IInv, NEW ids, SetBuildDiagnostics(ids)
    PROVE  IInv'
<1>. USE DEF SetBuildDiagnostics, settingVars, fileVars
<1>1. \A f \in Files : OnlyBuildKnows(f)
    BY DEF IInv, ClearedByBuild
<1>2. \A f \in DOMAIN all' : f \in Files /\ all'[f] \in SUBSET Diags
    BY DEF IInv, TypeOK, IsReport
<1>3. TypeOK'
  <2>1. displayed' \in [Files -> SUBSET (Diags \X Parts)]
      BY <1>2, FilterType DEF IInv, TypeOK
  <2>2. IsReport(all)'
      BY DEF IInv, TypeOK, IsReport
  <2>3. IsReport(awaiting)'
      BY DEF NoReport, IsReport
  <2>. QED BY <2>1, <2>2, <2>3 DEF IInv, TypeOK
<1>4. ASSUME NEW f \in Files, f \notin DOMAIN all' \/ f \in open
      PROVE  OnlyBuildKnows(f)'
  <2>1. CASE f \notin DOMAIN all'
      BY <1>1, <2>1 DEF OnlyBuildKnows
  <2>2. CASE f \in DOMAIN all' /\ f \in open
    <3>1. displayed'[f] = Filter(all'[f], ids, TRUE)
        BY <2>2
    <3>2. analyzerScope' = analyzerScope /\ compilerScope' = compilerScope
        OBVIOUS
    <3>. QED BY <3>1, <3>2, FilterOfOpen DEF OnlyBuildKnows
  <2>. QED BY <1>4, <2>1, <2>2
<1>5. ClearedByBuild'
    BY DEF ClearedByBuild
<1>6. LiveIsReported'
    BY <1>4 DEF LiveIsReported
<1>7. OpenFilesShowBuildErrors'
    BY <1>4 DEF OpenFilesShowBuildErrors, IInv, TypeOK
<1>. QED BY <1>3, <1>5, <1>6, <1>7 DEF IInv

\* _onFileOpened keeps the invariant.
LEMMA OnFileOpenedIInv ==
    ASSUME IInv, NEW ids, NEW o \in openings, OnFileOpened(o, ids)
    PROVE  IInv'
<1>. USE DEF OnFileOpened, settingVars
<1>1. o[1] \in Files
    BY DEF IInv, TypeOK
<1>2. TypeOK'
  <2>1. displayed' \in [Files -> SUBSET (Diags \X Parts)]
    <3>1. CASE o[1] \in DOMAIN all
      <4>1. all[o[1]] \in SUBSET Diags
          BY <3>1 DEF IInv, TypeOK, IsReport
      <4>. QED BY <1>1, <3>1, <4>1, FilterType DEF IInv, TypeOK
    <3>2. CASE o[1] \notin DOMAIN all
        BY <3>2 DEF IInv, TypeOK
    <3>. QED BY <3>1, <3>2
  <2>2. IsReport(all)' /\ IsReport(awaiting)'
      BY DEF IInv, TypeOK, IsReport
  <2>. QED BY <2>1, <2>2 DEF IInv, TypeOK
<1>3. OnlyBuildKnows(o[1])'
  <2>1. CASE o[1] \in DOMAIN all
    <3>1. displayed'[o[1]] = Filter(all[o[1]], ids, TRUE)
        BY <1>1, <2>1 DEF IInv, TypeOK
    <3>2. analyzerScope' = analyzerScope /\ compilerScope' = compilerScope
        OBVIOUS
    <3>. QED BY <3>1, <3>2, FilterOfOpen DEF OnlyBuildKnows
  <2>2. CASE o[1] \notin DOMAIN all
      BY <1>1, <2>2 DEF IInv, LiveIsReported, OnlyBuildKnows
  <2>. QED BY <2>1, <2>2
<1>4. ASSUME NEW f \in Files, OnlyBuildKnows(f) PROVE OnlyBuildKnows(f)'
  <2>1. CASE f = o[1]
      BY <1>3, <2>1
  <2>2. CASE f # o[1]
    <3>1. displayed'[f] = displayed[f]
        BY <2>2 DEF IInv, TypeOK
    <3>. QED BY <1>4, <3>1 DEF OnlyBuildKnows
  <2>. QED BY <2>1, <2>2
<1>5. ClearedByBuild'
    BY <1>4 DEF ClearedByBuild, IInv
<1>6. LiveIsReported'
    BY <1>4 DEF LiveIsReported, IInv
<1>7. OpenFilesShowBuildErrors'
  <2> SUFFICES ASSUME NEW f \in open \ dropped, \A q \in openings \ {o} : q[1] # f
               PROVE  OnlyBuildKnows(f)'
      BY DEF OpenFilesShowBuildErrors
  <2>1. CASE f = o[1]
      BY <1>3, <2>1
  <2>2. CASE f # o[1]
    <3>1. f \in Files
        BY DEF IInv, TypeOK
    <3>2. OnlyBuildKnows(f)
        BY <2>2 DEF IInv, OpenFilesShowBuildErrors
    <3>. QED BY <1>4, <3>1, <3>2
  <2>. QED BY <2>1, <2>2
<1>. QED BY <1>2, <1>5, <1>6, <1>7 DEF IInv

\* The steps that leave the displayed diagnostics and the last report alone.
LEMMA OtherStepsIInv ==
    ASSUME IInv,
           \/ ReportFails
           \/ \E r \in Reports : ReportBuildResult(r)
           \/ \E o \in openings : OpenRequestFails(o)
           \/ \E f \in Files : Open(f) \/ Close(f)
           \/ UNCHANGED vars
    PROVE  IInv'
<1>1. UNCHANGED <<all, displayed, settingVars>>
    BY DEF ReportFails, ReportBuildResult, OpenRequestFails, Open, Close, vars
<1>2. ASSUME NEW f \in Files PROVE OnlyBuildKnows(f)' = OnlyBuildKnows(f)
    BY <1>1 DEF OnlyBuildKnows, settingVars
<1>3. TypeOK'
  <2>1. IsReport(all)'
      BY <1>1 DEF IInv, TypeOK, IsReport
  <2>2. IsReport(awaiting)'
    <3>1. CASE \E r \in Reports : ReportBuildResult(r)
        BY <3>1, ReportsAreTyped DEF ReportBuildResult, IsReport
    <3>2. CASE ReportFails
        BY <3>2 DEF ReportFails, NoReport, IsReport
    <3>3. CASE UNCHANGED awaiting
        BY <3>3 DEF IInv, TypeOK, IsReport
    <3>. QED BY <3>1, <3>2, <3>3 DEF OpenRequestFails, Open, Close, vars
  <2>. QED
      BY <1>1, <2>1, <2>2
      DEF IInv, TypeOK, settingVars, fileVars, ReportFails, ReportBuildResult, OpenRequestFails, Open, Close, vars
<1>4. ClearedByBuild'
    BY <1>2 DEF IInv, ClearedByBuild, ReportFails, ReportBuildResult, OpenRequestFails, Open, Close, vars
<1>5. LiveIsReported'
    BY <1>1, <1>2 DEF IInv, LiveIsReported
<1>6. OpenFilesShowBuildErrors'
  <2> SUFFICES ASSUME NEW f \in (open \ dropped)', (\A o \in openings : o[1] # f)'
               PROVE  OnlyBuildKnows(f)'
      BY DEF OpenFilesShowBuildErrors
  <2>1. f \in Files
      BY <1>3 DEF TypeOK
  <2>2. f \in open \ dropped /\ \A o \in openings : o[1] # f
    <3>1. CASE ReportFails \/ (\E r \in Reports : ReportBuildResult(r)) \/ UNCHANGED vars
        BY <3>1 DEF fileVars, ReportFails, ReportBuildResult, vars
    <3>2. CASE \E o \in openings : OpenRequestFails(o)
        BY <3>2 DEF OpenRequestFails
    <3>3. ASSUME NEW g \in Files, Open(g)
          PROVE  f \in open \ dropped /\ \A o \in openings : o[1] # f
      <4>1. <<g, opens'>> \in openings' /\ openings \subseteq openings'
          BY <3>3 DEF Open
      <4>2. f # g
          BY <4>1
      <4>. QED BY <3>3, <4>1, <4>2 DEF Open
    <3>4. CASE \E g \in Files : Close(g)
        BY <3>4 DEF Close
    <3>. QED BY <3>1, <3>2, <3>3, <3>4
  <2>. QED BY <1>2, <2>1, <2>2 DEF IInv, OpenFilesShowBuildErrors
<1>. QED BY <1>3, <1>4, <1>5, <1>6 DEF IInv

\* Every step of the builds and of the documents keeps the invariant.
LEMMA NextIInv == IInv /\ [Next]_vars => IInv'
<1> SUFFICES ASSUME IInv, [Next]_vars PROVE IInv'
    OBVIOUS
<1>1. CASE BuildStarted
  <2>1. \A f \in Files : OnlyBuildKnows(f)'
      BY <1>1 DEF BuildStarted, OnlyBuildKnows
  <2>2. TypeOK'
      BY <1>1 DEF IInv, TypeOK, BuildStarted, settingVars, fileVars, IsReport
  <2>. QED BY <2>1, <2>2 DEF IInv, ClearedByBuild, LiveIsReported, OpenFilesShowBuildErrors, TypeOK
<1>2. CASE \E ids \in {BuildOnly, {}} : SetBuildDiagnostics(ids)
    BY <1>2, SetBuildDiagnosticsIInv
<1>3. CASE \E ids \in {BuildOnly, {}}, o \in openings : OnFileOpened(o, ids)
    BY <1>3, OnFileOpenedIInv
<1>4. CASE ReportFails \/ \E r \in Reports : ReportBuildResult(r)
    BY <1>4, OtherStepsIInv
<1>5. CASE \/ \E o \in openings : OpenRequestFails(o)
           \/ \E f \in Files : Open(f) \/ Close(f)
    BY <1>5, OtherStepsIInv
<1>6. CASE UNCHANGED vars
    BY <1>6, OtherStepsIInv
<1>. QED BY <1>1, <1>2, <1>3, <1>4, <1>5, <1>6 DEF Next

\* The inductive invariant of BuildDiagnostics.
THEOREM SpecIInv == Spec => []IInv
BY InitIInv, NextIInv, PTL DEF Spec

\* Every variable keeps its type: the maps and sets of BuildDiagnosticsService.
THEOREM TypeCorrect == Spec => []TypeOK
<1>1. IInv => TypeOK
    BY DEF IInv
<1>. QED BY <1>1, SpecIInv, PTL

\* What live analysis reports of an open file is not displayed a second time,
\* whichever of the opening and the report comes first.
THEOREM OpenFilesCorrect == Spec => []OpenFilesShowBuildErrors
<1>1. IInv => OpenFilesShowBuildErrors
    BY DEF IInv
<1>. QED BY <1>1, SpecIInv, PTL

-----------------------------------------------------------------------------
(* While no file was opened.                                                 *)

NoneOpened == opens = 0 => openings = {} /\ open = {}

\* Nothing is displayed between the start of a build and its report.
EmptyUntilReport ==
    opens = 0 /\ build \in {"building", "awaiting"} => \A f \in Files : displayed[f] = {}

ClosedInv == NoneOpened /\ EmptyUntilReport /\ ClosedFilesShowAll

\* Of a file that is not open, and with neither scope the full solution,
\* filterDiagnosticsFromBuild lists every diagnostic that has a code.
LEMMA FilterOfClosed ==
    ASSUME NEW list \in SUBSET Diags, NEW ids, "fullSolution" \notin {analyzerScope, compilerScope},
           analyzerScope \in AnalysisSettings, compilerScope \in AnalysisSettings
    PROVE  Coded({p[1] : p \in Filter(list, ids, FALSE)}) = Coded(list)
<1>. DEFINE F == Filter(list, ids, FALSE)
<1>1. NotLive(analyzerScope, FALSE) /\ NotLive(compilerScope, FALSE)
    BY DEF NotLive, AnalysisSettings
<1>2. ASSUME NEW p \in F PROVE p[1] \in list
    BY DEF Filter
<1>3. ASSUME NEW d \in list, CodeOf[d] # "none" PROVE \E piece \in Parts : <<d, piece>> \in F
  <2>1. CodeOf[d] \in {"compiler", "analyzer", "projectSystem"}
      BY <1>3, DiagnosticsAssumption DEF CodeKinds
  <2>2. CASE analyzerScope = "none" /\ compilerScope = "none"
      BY <2>2 DEF Filter, Parts
  <2>3. CASE ~(analyzerScope = "none" /\ compilerScope = "none")
    <3>1. CASE d \in ids
        BY <2>3, <3>1 DEF Filter, Parts
    <3>2. CASE d \notin ids /\ CodeOf[d] = "compiler"
        BY <1>1, <2>3, <3>2 DEF Filter, Parts, IsCompiler
    <3>3. CASE d \notin ids /\ CodeOf[d] \in {"analyzer", "projectSystem"}
        BY <1>1, <2>3, <3>3 DEF Filter, Parts, IsAnalyzer
    <3>. QED BY <2>1, <3>1, <3>2, <3>3
  <2>. QED BY <2>2, <2>3
<1>4. ASSUME NEW d \in list, CodeOf[d] # "none" PROVE d \in {p[1] : p \in F}
  <2>1. PICK piece \in Parts : <<d, piece>> \in F
      BY <1>3, <1>4
  <2>2. <<d, piece>>[1] = d
      OBVIOUS
  <2>. QED BY <2>1, <2>2
<1>. QED BY <1>2, <1>4 DEF Coded

\* The report that setBuildDiagnostics keeps is what it displays.
LEMMA SetBuildDiagnosticsClosed ==
    ASSUME TypeOK, ClosedInv, NEW ids, SetBuildDiagnostics(ids)
    PROVE  ClosedInv'
<1>. USE DEF SetBuildDiagnostics, settingVars, fileVars
<1>1. NoneOpened' /\ EmptyUntilReport'
    BY DEF ClosedInv, NoneOpened, EmptyUntilReport
<1>2. ASSUME opens = 0, "fullSolution" \notin {analyzerScope, compilerScope}, NEW f \in Files
      PROVE  Coded({p[1] : p \in displayed'[f]})
               = IF f \in DOMAIN all' THEN Coded(all'[f]) ELSE {}
  <2>1. CASE f \in DOMAIN all'
    <3>1. all'[f] \in SUBSET Diags
        BY <2>1 DEF TypeOK, IsReport
    <3>2. displayed'[f] = Filter(all'[f], ids, FALSE)
      <4>1. (f \in open) = FALSE
          BY <1>2 DEF ClosedInv, NoneOpened
      <4>2. displayed'[f] = Filter(all'[f], ids, f \in open)
          BY <2>1
      <4>. QED BY <4>1, <4>2
    <3>3. Coded({p[1] : p \in Filter(all'[f], ids, FALSE)}) = Coded(all'[f])
        BY <1>2, <3>1, FilterOfClosed DEF TypeOK
    <3>. QED BY <2>1, <3>2, <3>3
  <2>2. CASE f \notin DOMAIN all'
    <3>1. displayed'[f] = {}
        BY <1>2, <2>2 DEF ClosedInv, EmptyUntilReport
    <3>. QED BY <2>2, <3>1 DEF Coded
  <2>. QED BY <2>1, <2>2
<1>3. ClosedFilesShowAll'
    BY <1>2 DEF ClosedFilesShowAll
<1>. QED BY <1>1, <1>3 DEF ClosedInv

\* While no file was opened the lists of the last report are displayed whole.
LEMMA NextClosed ==
    ASSUME TypeOK, ClosedInv, [Next]_vars
    PROVE  ClosedInv'
<1>1. CASE BuildStarted
    BY <1>1 DEF BuildStarted, fileVars, ClosedInv, NoneOpened, EmptyUntilReport, ClosedFilesShowAll
<1>2. CASE \E ids \in {BuildOnly, {}} : SetBuildDiagnostics(ids)
    BY <1>2, SetBuildDiagnosticsClosed
<1>3. ASSUME NEW o \in openings, \/ \E ids \in {BuildOnly, {}} : OnFileOpened(o, ids)
                                 \/ OpenRequestFails(o)
      PROVE  ClosedInv'
  <2>1. opens' # 0
      BY <1>3 DEF OnFileOpened, OpenRequestFails, ClosedInv, NoneOpened
  <2>. QED BY <2>1 DEF ClosedInv, NoneOpened, EmptyUntilReport, ClosedFilesShowAll
<1>4. ASSUME NEW f \in Files, Open(f) PROVE ClosedInv'
  <2>1. opens' # 0
      BY <1>4 DEF Open, TypeOK
  <2>. QED BY <2>1 DEF ClosedInv, NoneOpened, EmptyUntilReport, ClosedFilesShowAll
<1>5. ASSUME NEW f \in Files, Close(f) PROVE ClosedInv'
  <2>1. opens' # 0
      BY <1>5 DEF Close, ClosedInv, NoneOpened
  <2>. QED BY <2>1 DEF ClosedInv, NoneOpened, EmptyUntilReport, ClosedFilesShowAll
<1>6. CASE ReportFails \/ (\E r \in Reports : ReportBuildResult(r)) \/ UNCHANGED vars
  <2>1. UNCHANGED <<opens, open, openings, displayed, all, settingVars>>
      BY <1>6 DEF ReportFails, ReportBuildResult, vars, fileVars
  <2>2. NoneOpened'
      BY <2>1 DEF ClosedInv, NoneOpened
  <2>3. EmptyUntilReport'
      BY <1>6, <2>1 DEF ClosedInv, EmptyUntilReport, ReportFails, ReportBuildResult, vars
  <2>4. build' = "reported" => build = "reported"
      BY <1>6 DEF ReportFails, ReportBuildResult, vars
  <2>5. ClosedFilesShowAll'
      BY <2>1, <2>4 DEF ClosedInv, ClosedFilesShowAll, settingVars, Coded
  <2>. QED BY <2>2, <2>3, <2>5 DEF ClosedInv
<1>. QED BY <1>1, <1>2, <1>3, <1>4, <1>5, <1>6 DEF Next

\* While no file was opened and neither scope is the full solution, the user sees
\* all the diagnostics with a code of the last report and none of an older one.
THEOREM ClosedFilesCorrect == Spec => []ClosedFilesShowAll
<1>1. Init => ClosedInv
    BY DEF Init, ClosedInv, NoneOpened, EmptyUntilReport, ClosedFilesShowAll
<1>2. TypeOK /\ ClosedInv /\ [Next]_vars => ClosedInv'
    BY NextClosed
<1>3. ClosedInv => ClosedFilesShowAll
    BY DEF ClosedInv
<1>. QED BY <1>1, <1>2, <1>3, TypeCorrect, PTL DEF Spec

-----------------------------------------------------------------------------
(* The survey.                                                               *)

Keys == [shown : BOOLEAN, snoozed : BOOLEAN]

\* What each window has of the survey, and that an initialization which was seen is no
\* longer listened for.
SurveyTypes ==
    /\ globalState \in Keys /\ chosen \in BOOLEAN
    /\ copy \in [Windows -> Keys]
    /\ survey \in [Windows -> {"starting", "probing", "waiting", "asking", "opening", "ended"}]
    /\ server \in [Windows -> {"stopped", "started", "complete"}]
    /\ listening \in [Windows -> BOOLEAN] /\ completed \in [Windows -> BOOLEAN]
    /\ \A w \in Windows : ~(listening[w] /\ completed[w])

SurveyInv == SurveyTypes /\ Copilot!SurveyKept

\* A window begins with what all windows share.
LEMMA InitSurveyInv == Copilot!Init => SurveyInv
<1> SUFFICES ASSUME Copilot!Init PROVE SurveyInv
    OBVIOUS
<1>1. /\ globalState = [shown |-> FALSE, snoozed |-> FALSE] /\ chosen = FALSE
      /\ copy = [w \in Windows |-> [shown |-> FALSE, snoozed |-> FALSE]]
      /\ survey = [w \in Windows |-> "starting"] /\ server = [w \in Windows |-> "stopped"]
      /\ listening = [w \in Windows |-> FALSE] /\ completed = [w \in Windows |-> FALSE]
    BY DEF Copilot!Init, Copilot!None
<1>2. SurveyTypes
    BY <1>1 DEF SurveyTypes, Keys
<1>3. Copilot!SurveyKept
    BY <1>1 DEF Copilot!SurveyKept, Copilot!RetiredByChoice, Copilot!InitializationSeen
<1>. QED BY <1>2, <1>3 DEF SurveyInv

\* The keys as a window writes them.
LEMMA WritesKeys ==
    ASSUME SurveyTypes, NEW w \in Windows, NEW key \in {"shown", "snoozed"}, Copilot!Updated(w, key)
    PROVE  /\ globalState' \in Keys /\ copy' \in [Windows -> Keys]
           /\ globalState'.shown = (key = "shown" \/ globalState.shown)
BY DEF SurveyTypes, Keys, Copilot!Updated

\* Every step of a window keeps the invariant.
LEMMA NextSurveyInv == SurveyInv /\ Copilot!Next => SurveyInv'
<1> SUFFICES ASSUME SurveyInv, Copilot!Next PROVE SurveyInv'
    OBVIOUS
<1>1. SurveyTypes /\ Copilot!RetiredByChoice /\ Copilot!InitializationSeen
    BY DEF SurveyInv, Copilot!SurveyKept
<1> USE DEF SurveyInv, SurveyTypes, Copilot!SurveyKept, Copilot!RetiredByChoice, Copilot!InitializationSeen,
            Copilot!Goes, Copilot!Ends
<1>2. ASSUME NEW w \in Windows, Copilot!Registers(w) PROVE SurveyInv'
  <2>1. /\ UNCHANGED <<globalState, copy, server, chosen>> /\ survey[w] = "starting"
        /\ \E b \in BOOLEAN :
              /\ survey' = [survey EXCEPT ![w] = IF b THEN "ended" ELSE "probing"]
              /\ completed' = [completed EXCEPT ![w] = ~b /\ server[w] = "complete"]
              /\ listening' = [listening EXCEPT ![w] = ~b /\ server[w] # "complete"]
    <3>1. Copilot!NotAgain(w) \in BOOLEAN
        BY <1>1 DEF Copilot!NotAgain, Keys
    <3>. QED BY <1>2, <3>1 DEF Copilot!Registers
  <2>2. PICK b \in BOOLEAN : 
              /\ survey' = [survey EXCEPT ![w] = IF b THEN "ended" ELSE "probing"]
              /\ completed' = [completed EXCEPT ![w] = ~b /\ server[w] = "complete"]
              /\ listening' = [listening EXCEPT ![w] = ~b /\ server[w] # "complete"]
      BY <2>1
  <2>. QED BY <1>1, <2>1, <2>2
<1>3. ASSUME NEW w \in Windows, NEW state \in {"stopped", "started", "complete"},
             Copilot!ServerStateChanges(w, state)
      PROVE  SurveyInv'
    BY <1>1, <1>3 DEF Copilot!ServerStateChanges
<1>4. ASSUME NEW w \in Windows, NEW good \in BOOLEAN, Copilot!Probed(w, good) PROVE SurveyInv'
    BY <1>1, <1>4 DEF Copilot!Probed
<1>5. ASSUME NEW w \in Windows, Copilot!Prompts(w) PROVE SurveyInv'
    BY <1>1, <1>5 DEF Copilot!Prompts
<1>6. ASSUME NEW w \in Windows, NEW good \in BOOLEAN, Copilot!OpenedExternal(w, good) PROVE SurveyInv'
  <2>1. /\ globalState' \in Keys /\ copy' \in [Windows -> Keys]
        /\ chosen' \in BOOLEAN /\ globalState'.shown = chosen'
      BY <1>1, <1>6, WritesKeys DEF Copilot!OpenedExternal, Copilot!MarkSurveyShown, Copilot!SnoozeSurvey
  <2>. QED BY <1>1, <1>6, <2>1 DEF Copilot!OpenedExternal
<1>7. ASSUME NEW w \in Windows, NEW answer \in {"takeAction", "dismiss", "none", "throws"},
             Copilot!Answered(w, answer)
      PROVE  SurveyInv'
  <2>1. /\ globalState' \in Keys /\ copy' \in [Windows -> Keys]
        /\ chosen' \in BOOLEAN /\ globalState'.shown = chosen'
      BY <1>1, <1>7, WritesKeys DEF Copilot!Answered, Copilot!MarkSurveyShown, Copilot!SnoozeSurvey
  <2>2. /\ survey[w] = "asking" /\ UNCHANGED <<server, completed>>
        /\ \/ survey' = [survey EXCEPT ![w] = "opening"] /\ UNCHANGED listening
           \/ /\ survey' = [survey EXCEPT ![w] = "ended"]
              /\ listening' = [listening EXCEPT ![w] = FALSE]
      BY <1>7 DEF Copilot!Answered
  <2>. QED BY <1>1, <2>1, <2>2
<1>8. ASSUME NEW w \in Windows, Copilot!Synchronized(w) PROVE SurveyInv'
    BY <1>1, <1>8 DEF Copilot!Synchronized
<1>9. ASSUME Copilot!SnoozeElapses PROVE SurveyInv'
  <2>1. globalState' \in Keys /\ copy' \in [Windows -> Keys] /\ globalState'.shown = globalState.shown
      BY <1>1, <1>9 DEF Copilot!SnoozeElapses, Keys
  <2>. QED BY <1>1, <1>9, <2>1 DEF Copilot!SnoozeElapses
<1>10. ASSUME NEW w \in Windows, Copilot!Reloads(w) PROVE SurveyInv'
    BY <1>1, <1>10 DEF Copilot!Reloads
<1>. QED BY <1>2, <1>3, <1>4, <1>5, <1>6, <1>7, <1>8, <1>9, <1>10 DEF Copilot!Next

\* The survey is retired by an explicit choice, and by that for good.
THEOREM SurveyCorrect == WorkspaceSpec => []Copilot!SurveyKept
<1>1. WorkspaceInit => SurveyInv
    BY InitSurveyInv DEF WorkspaceInit
<1>2. SurveyInv /\ UNCHANGED surveyVars => SurveyInv'
    BY DEF SurveyInv, SurveyTypes, Copilot!SurveyKept, Copilot!RetiredByChoice, Copilot!InitializationSeen, surveyVars
<1>3. [WorkspaceNext]_workspaceVars => Copilot!Next \/ UNCHANGED surveyVars
    BY DEF WorkspaceNext, workspaceVars
<1>4. SurveyInv => Copilot!SurveyKept
    BY DEF SurveyInv
<1>. QED BY <1>1, <1>2, <1>3, <1>4, NextSurveyInv, PTL DEF WorkspaceSpec

-----------------------------------------------------------------------------
(* The edits of the Roslyn server.                                           *)

TextChange == [doc : TextDocs, text : Texts \cup {"replaced"}, version : Nat]
AutoInsert == [n : Nat \ {0}, doc : TextDocs, version : Nat, cancelled : BOOLEAN,
               answer : {"none", "edit", "nothing", "rejected"}]
AppliedEdit == [by : Nat, doc : TextDocs, on : Nat]
NotBegun == {"opening", "picking", "scope", "resolving", "nothing", "dismissed", "cancelled"}
CommandSteps == NotBegun \cup {"idle", "trying", "applying", "done", "failed"}

EditTypes ==
    /\ editor \in [TextDocs -> Nat] /\ sent \in [TextDocs -> Nat]
    /\ changes \in Seq(TextChange) /\ handlers \in Seq(TextChange)
    /\ inserts \in SUBSET AutoInsert /\ insertsAsked \in Nat
    /\ editCommand \in [kind : {"none", "completion", "nested", "fixAll"}, step : CommandSteps,
                        doc : TextDocs \cup {Edits!Idle.doc}, tries : Nat]
    /\ applying \in SUBSET AppliedEdit /\ applied \in Nat

\* The changes of a document are told of in their order.
ToldInOrder ==
    /\ \A d \in TextDocs : sent[d] <= editor[d]
    /\ \A i \in 1 .. Len(changes) :
           sent[changes[i].doc] < changes[i].version /\ changes[i].version <= editor[changes[i].doc]
    /\ \A i, j \in 1 .. Len(changes) :
           i < j /\ changes[i].doc = changes[j].doc => changes[i].version < changes[j].version
    /\ \A i \in 1 .. Len(handlers) : handlers[i].version <= sent[handlers[i].doc]

\* The edit of the command is asked for once at a time.
OneAtATime ==
    /\ editCommand.kind = "none" <=> editCommand.step = "idle"
    /\ editCommand.kind # "none" => editCommand.doc \in TextDocs
    /\ editCommand.step \in NotBegun \cup {"idle"} => editCommand.tries = 0
    /\ \A e \in applying : e.by = 0 => editCommand.step = "applying"
    /\ \A e, f \in applying : e.by = 0 /\ f.by = 0 => e = f

EditsInv ==
    /\ EditTypes /\ ToldInOrder /\ OneAtATime
    /\ Edits!OneInsert /\ Edits!AppliedOnce /\ Edits!AskedAfterChange

\* No text is changed and nothing asked for at first.
LEMMA InitEditsInv == Edits!Init => EditsInv
<1> SUFFICES ASSUME Edits!Init PROVE EditsInv
    OBVIOUS
<1>1. /\ editor = [d \in TextDocs |-> 0] /\ sent = [d \in TextDocs |-> 0]
      /\ changes = <<>> /\ handlers = <<>> /\ inserts = {} /\ insertsAsked = 0
      /\ editCommand = [kind |-> "none", step |-> "idle", doc |-> Edits!Idle.doc, tries |-> 0]
      /\ applying = {} /\ applied = 0
    BY DEF Edits!Init, Edits!Idle
<1> HIDE DEF Edits!Idle
<1>2. EditTypes
    BY <1>1 DEF EditTypes, CommandSteps
<1>3. ToldInOrder
    BY <1>1 DEF ToldInOrder
<1>4. OneAtATime
    BY <1>1 DEF OneAtATime
<1>5. Edits!OneInsert /\ Edits!AppliedOnce /\ Edits!AskedAfterChange
    BY <1>1 DEF Edits!OneInsert, Edits!AppliedOnce, Edits!AskedAfterChange
<1>. QED BY <1>2, <1>3, <1>4, <1>5 DEF EditsInv

\* Every member of a sequence of changes is one.
LEMMA ChangesOfSeq ==
    ASSUME NEW s \in Seq(TextChange)
    PROVE  /\ Len(s) \in Nat /\ (s # <<>> => Len(s) \in Nat \ {0})
           /\ \A i \in 1 .. Len(s) : s[i] \in TextChange /\ s[i].doc \in TextDocs /\ s[i].version \in Nat
<1>1. Len(s) \in Nat /\ (s # <<>> => Len(s) \in Nat \ {0})
    BY LenProperties, EmptySeq
<1>2. ASSUME NEW i \in 1 .. Len(s)
      PROVE  s[i] \in TextChange /\ s[i].doc \in TextDocs /\ s[i].version \in Nat
  <2>1. s[i] \in TextChange
      BY ElementOfSeq
  <2>. QED BY <2>1 DEF TextChange
<1>. QED BY <1>1, <1>2

\* A change that the user or an edit makes comes after all that are still to be told.
LEMMA ChangedInOrder ==
    ASSUME EditTypes, ToldInOrder, NEW d \in TextDocs, NEW new \in Texts \cup {"replaced"},
           Edits!Changed(d, new), UNCHANGED <<sent, handlers>>
    PROVE  /\ editor' \in [TextDocs -> Nat] /\ changes' \in Seq(TextChange)
           /\ ToldInOrder'
<1> DEFINE c == [doc |-> d, text |-> new, version |-> editor[d] + 1]
<1>1. editor' = [editor EXCEPT ![d] = @ + 1] /\ changes' = Append(changes, c)
    BY DEF Edits!Changed, Edits!Change
<1>2. c \in TextChange /\ c.doc = d /\ c.version = editor[d] + 1
    BY DEF EditTypes, TextChange
<1>3. editor \in [TextDocs -> Nat] /\ sent \in [TextDocs -> Nat] /\ changes \in Seq(TextChange)
    BY DEF EditTypes
<1> HIDE DEF c
<1>4. editor' \in [TextDocs -> Nat] /\ \A e \in TextDocs : editor'[e] = IF e = d THEN editor[d] + 1 ELSE editor[e]
    BY <1>1, <1>3
<1>5. /\ changes' \in Seq(TextChange) /\ Len(changes') = Len(changes) + 1
      /\ \A i \in 1 .. Len(changes) : changes'[i] = changes[i]
      /\ changes'[Len(changes) + 1] = c
    BY <1>1, <1>2, <1>3, AppendProperties
<1>6. Len(changes) \in Nat /\ \A i \in 1 .. Len(changes) :
          changes[i].doc \in TextDocs /\ changes[i].version \in Nat
    BY <1>3, ChangesOfSeq
<1>7. ASSUME NEW i \in 1 .. Len(changes')
      PROVE  sent'[changes'[i].doc] < changes'[i].version /\ changes'[i].version <= editor'[changes'[i].doc]
  <2>1. CASE i = Len(changes) + 1
    <3>1. sent[d] <= editor[d] /\ sent[d] \in Nat /\ editor[d] \in Nat
        BY <1>3 DEF ToldInOrder
    <3>2. changes'[i].doc = d /\ changes'[i].version = editor[d] + 1 /\ editor'[d] = editor[d] + 1
        BY <1>2, <1>4, <1>5, <2>1
    <3>. QED BY <3>1, <3>2
  <2>2. CASE i \in 1 .. Len(changes)
    <3>1. changes'[i] = changes[i] /\ changes[i].doc \in TextDocs /\ changes[i].version \in Nat
        BY <1>5, <1>6, <2>2
    <3>2. sent[changes[i].doc] < changes[i].version /\ changes[i].version <= editor[changes[i].doc]
        BY <2>2 DEF ToldInOrder
    <3>3. editor[changes[i].doc] \in Nat /\ editor'[changes[i].doc] \in {editor[changes[i].doc], editor[changes[i].doc] + 1}
        BY <1>3, <1>4, <3>1
    <3>. QED BY <3>1, <3>2, <3>3
  <2>. QED BY <1>5, <1>6, <2>1, <2>2
<1>8. ASSUME NEW i \in 1 .. Len(changes'), NEW j \in 1 .. Len(changes'), i < j,
             changes'[i].doc = changes'[j].doc
      PROVE  changes'[i].version < changes'[j].version
  <2>1. i \in 1 .. Len(changes) /\ changes'[i] = changes[i]
      BY <1>5, <1>6, <1>8
  <2>2. CASE j = Len(changes) + 1
    <3>1. changes[i].version <= editor[changes[i].doc]
        BY <2>1 DEF ToldInOrder
    <3>2. changes'[j] = c
        BY <1>5, <2>2
    <3>. QED BY <1>2, <1>3, <1>6, <1>8, <2>1, <3>1, <3>2
  <2>3. CASE j \in 1 .. Len(changes)
    <3>1. changes'[j] = changes[j]
        BY <1>5, <2>3
    <3>. QED BY <1>8, <2>1, <2>3, <3>1 DEF ToldInOrder
  <2>. QED BY <1>5, <1>6, <2>2, <2>3
<1>9. \A e \in TextDocs : sent'[e] <= editor'[e]
  <2> SUFFICES ASSUME NEW e \in TextDocs PROVE sent[e] <= editor'[e]
      OBVIOUS
  <2>1. sent[e] <= editor[e] /\ sent[e] \in Nat /\ editor[e] \in Nat
      BY <1>3 DEF ToldInOrder
  <2>. QED BY <1>4, <2>1
<1>10. \A i \in 1 .. Len(handlers') : handlers'[i].version <= sent'[handlers'[i].doc]
    BY DEF ToldInOrder
<1>. QED BY <1>4, <1>5, <1>7, <1>8, <1>9, <1>10 DEF ToldInOrder

\* The first of the changes is told of, and those after it are of later versions.
LEMMA SentInOrder ==
    ASSUME EditTypes, ToldInOrder, Edits!DidChangeSent
    PROVE  /\ sent' \in [TextDocs -> Nat] /\ changes' \in Seq(TextChange)
           /\ handlers' \in Seq(TextChange)
           /\ \A d \in TextDocs : sent[d] <= sent'[d]
           /\ ToldInOrder'
<1> DEFINE c == Head(changes)
<1>1. /\ changes # <<>> /\ sent' = [sent EXCEPT ![c.doc] = c.version]
      /\ handlers' = handlers \/ handlers' = Append(handlers, c)
      /\ changes' = Tail(changes) /\ editor' = editor
    BY DEF Edits!DidChangeSent
<1>2. /\ editor \in [TextDocs -> Nat] /\ sent \in [TextDocs -> Nat]
      /\ changes \in Seq(TextChange) /\ handlers \in Seq(TextChange)
    BY DEF EditTypes
<1>3. /\ c \in TextChange /\ c = changes[1] /\ changes' \in Seq(TextChange)
      /\ Len(changes') = Len(changes) - 1
      /\ \A i \in 1 .. Len(changes') : changes'[i] = changes[i + 1]
    BY <1>1, <1>2, HeadTailProperties
<1>4. /\ Len(changes) \in Nat \ {0}
      /\ \A i \in 1 .. Len(changes) : changes[i].doc \in TextDocs /\ changes[i].version \in Nat
    BY <1>1, <1>2, ChangesOfSeq
<1>5. c.doc \in TextDocs /\ c.version \in Nat /\ sent[c.doc] < c.version /\ c.version <= editor[c.doc]
    BY <1>3, <1>4 DEF ToldInOrder
<1>6. \A j \in 2 .. Len(changes) : changes[j].doc = c.doc => c.version < changes[j].version
    BY <1>3, <1>4 DEF ToldInOrder
<1> HIDE DEF c
<1>7. /\ sent' \in [TextDocs -> Nat]
      /\ \A d \in TextDocs : sent'[d] = IF d = c.doc THEN c.version ELSE sent[d]
    BY <1>1, <1>2, <1>5
<1>8. \A d \in TextDocs : sent[d] <= sent'[d] /\ sent'[d] <= editor'[d]
  <2> SUFFICES ASSUME NEW d \in TextDocs PROVE sent[d] <= sent'[d] /\ sent'[d] <= editor[d]
      BY <1>1
  <2>1. sent[d] \in Nat /\ sent[d] <= editor[d]
      BY <1>2 DEF ToldInOrder
  <2>. QED BY <1>5, <1>7, <2>1
<1>9. ASSUME NEW i \in 1 .. Len(changes')
      PROVE  sent'[changes'[i].doc] < changes'[i].version /\ changes'[i].version <= editor'[changes'[i].doc]
  <2>1. changes'[i] = changes[i + 1] /\ i + 1 \in 2 .. Len(changes)
      BY <1>3, <1>4
  <2>2. /\ sent[changes[i + 1].doc] < changes[i + 1].version
        /\ changes[i + 1].version <= editor[changes[i + 1].doc]
        /\ changes[i + 1].doc \in TextDocs
      BY <1>4, <2>1 DEF ToldInOrder
  <2>. QED BY <1>1, <1>6, <1>7, <2>1, <2>2
<1>10. ASSUME NEW i \in 1 .. Len(changes'), NEW j \in 1 .. Len(changes'), i < j,
              changes'[i].doc = changes'[j].doc
       PROVE  changes'[i].version < changes'[j].version
  <2>1. /\ changes'[i] = changes[i + 1] /\ changes'[j] = changes[j + 1]
        /\ i + 1 \in 1 .. Len(changes) /\ j + 1 \in 1 .. Len(changes) /\ i + 1 < j + 1
      BY <1>3, <1>4, <1>10
  <2>. QED BY <1>10, <2>1 DEF ToldInOrder
<1>11. handlers' \in Seq(TextChange)
  <2>1. c \in TextChange
      BY <1>3
  <2>2. Append(handlers, c) \in Seq(TextChange)
      BY <1>2, <2>1, AppendProperties
  <2>. QED BY <1>1, <1>2, <2>2
<1>12. ASSUME NEW i \in 1 .. Len(handlers')
       PROVE  handlers'[i].version <= sent'[handlers'[i].doc]
  <2>1. ASSUME NEW k \in 1 .. Len(handlers)
        PROVE  handlers[k].version <= sent'[handlers[k].doc]
    <3>1. handlers[k].doc \in TextDocs /\ handlers[k].version \in Nat
        BY <1>2, ChangesOfSeq
    <3>2. handlers[k].version <= sent[handlers[k].doc]
        BY DEF ToldInOrder
    <3>. QED BY <1>2, <1>7, <1>8, <3>1, <3>2
  <2>2. CASE handlers' = handlers
      BY <2>1, <2>2
  <2>3. CASE handlers' = Append(handlers, c)
    <3>1. c \in TextChange
        BY <1>3
    <3>2. /\ Len(handlers') = Len(handlers) + 1 /\ Len(handlers) \in Nat
          /\ \A k \in 1 .. Len(handlers) : handlers'[k] = handlers[k]
          /\ handlers'[Len(handlers) + 1] = c
        BY <1>2, <2>3, <3>1, AppendProperties, LenProperties
    <3>3. CASE i = Len(handlers) + 1
        BY <1>5, <1>7, <3>2, <3>3
    <3>4. CASE i \in 1 .. Len(handlers)
        BY <2>1, <3>2, <3>4
    <3>. QED BY <3>2, <3>3, <3>4
  <2>. QED BY <1>1, <2>2, <2>3
<1>13. /\ \A d \in TextDocs : sent'[d] <= editor'[d]
       /\ \A i \in 1 .. Len(changes') :
             sent'[changes'[i].doc] < changes'[i].version /\ changes'[i].version <= editor'[changes'[i].doc]
       /\ \A i, j \in 1 .. Len(changes') :
             i < j /\ changes'[i].doc = changes'[j].doc => changes'[i].version < changes'[j].version
       /\ \A i \in 1 .. Len(handlers') : handlers'[i].version <= sent'[handlers'[i].doc]
    BY <1>8, <1>9, <1>10, <1>12
<1>14. ToldInOrder'
    BY <1>13 DEF ToldInOrder
<1>. QED BY <1>3, <1>7, <1>8, <1>11, <1>14

\* The handlers that wait lose their first.
LEMMA HandlersTail ==
    ASSUME EditTypes, ToldInOrder, handlers # <<>>, handlers' = Tail(handlers),
           UNCHANGED <<editor, sent, changes>>
    PROVE  /\ handlers' \in Seq(TextChange) /\ ToldInOrder'
           /\ Head(handlers) \in TextChange
           /\ Head(handlers).version <= sent[Head(handlers).doc]
<1>1. handlers \in Seq(TextChange)
    BY DEF EditTypes
<1>2. /\ Head(handlers) \in TextChange /\ Head(handlers) = handlers[1] /\ handlers' \in Seq(TextChange)
      /\ Len(handlers') = Len(handlers) - 1
      /\ \A i \in 1 .. Len(handlers') : handlers'[i] = handlers[i + 1]
    BY <1>1, HeadTailProperties
<1>3. Len(handlers) \in Nat \ {0}
    BY <1>1, LenProperties, EmptySeq
<1>4. \A i \in 1 .. Len(handlers') : handlers'[i].version <= sent'[handlers'[i].doc]
  <2> SUFFICES ASSUME NEW i \in 1 .. Len(handlers')
               PROVE  handlers'[i].version <= sent[handlers'[i].doc]
      OBVIOUS
  <2>1. handlers'[i] = handlers[i + 1] /\ i + 1 \in 1 .. Len(handlers)
      BY <1>2, <1>3
  <2>. QED BY <2>1 DEF ToldInOrder
<1>5. Head(handlers).version <= sent[Head(handlers).doc]
    BY <1>2, <1>3 DEF ToldInOrder
<1>6. ToldInOrder'
    BY <1>4 DEF ToldInOrder
<1>. QED BY <1>2, <1>5, <1>6

\* A step of the command that asks for no edit and applies none.
LEMMA CommandKeeps ==
    ASSUME EditsInv, NEW from \in CommandSteps \ {"idle", "applying", "done"},
           NEW to \in {"picking", "scope", "resolving", "nothing", "dismissed", "cancelled", "trying", "failed"},
           NEW kind \in {"completion", "nested", "fixAll", editCommand.kind},
           to \in NotBegun => from \in NotBegun,
           Edits!From(from, kind, to)
    PROVE  EditsInv'
<1>1. /\ editCommand.step = from
      /\ editCommand' = [editCommand EXCEPT !.kind = kind, !.step = to]
      /\ UNCHANGED <<editor, sent, changes, handlers, inserts, insertsAsked, applying, applied>>
    BY DEF Edits!From
<1>2. EditTypes /\ ToldInOrder /\ OneAtATime /\ Edits!OneInsert /\ Edits!AppliedOnce /\ Edits!AskedAfterChange
    BY DEF EditsInv
<1>3. /\ editCommand' = [kind |-> kind, step |-> to, doc |-> editCommand.doc, tries |-> editCommand.tries]
      /\ editCommand.kind # "none" /\ kind # "none" /\ kind \in {"completion", "nested", "fixAll"}
      /\ editCommand.tries \in Nat /\ editCommand.doc \in TextDocs
    BY <1>1, <1>2 DEF EditTypes, OneAtATime, CommandSteps, NotBegun
<1>4. EditTypes'
    BY <1>1, <1>2, <1>3 DEF EditTypes, CommandSteps, NotBegun
<1>5. ToldInOrder'
    BY <1>1, <1>2 DEF ToldInOrder
<1>6. OneAtATime'
    BY <1>1, <1>2, <1>3 DEF OneAtATime, CommandSteps, NotBegun
<1>7. Edits!OneInsert' /\ Edits!AskedAfterChange'
    BY <1>1, <1>2 DEF Edits!OneInsert, Edits!AskedAfterChange
<1>8. Edits!AppliedOnce'
    BY <1>1, <1>2, <1>3 DEF Edits!AppliedOnce, CommandSteps, NotBegun
<1>. QED BY <1>4, <1>5, <1>6, <1>7, <1>8 DEF EditsInv

\* Every step keeps the invariant.
LEMMA NextEditsInv == EditsInv /\ Edits!Next => EditsInv'
<1> SUFFICES ASSUME EditsInv, Edits!Next PROVE EditsInv'
    OBVIOUS
<1>1. EditTypes /\ ToldInOrder /\ OneAtATime /\ Edits!OneInsert /\ Edits!AppliedOnce /\ Edits!AskedAfterChange
    BY DEF EditsInv
<1>2. ASSUME NEW d \in TextDocs, NEW new \in Texts, Edits!Types(d, new) PROVE EditsInv'
  <2>1. /\ Edits!Changed(d, new)
        /\ UNCHANGED <<sent, handlers, inserts, insertsAsked, editCommand, applying, applied>>
      BY <1>2 DEF Edits!Types
  <2>2. editor' \in [TextDocs -> Nat] /\ changes' \in Seq(TextChange) /\ ToldInOrder'
      BY <1>1, <2>1, ChangedInOrder
  <2>. QED BY <1>1, <2>1, <2>2
           DEF EditsInv, EditTypes, OneAtATime, Edits!OneInsert, Edits!AppliedOnce, Edits!AskedAfterChange
<1>3. CASE Edits!DidChangeSent
  <2>1. UNCHANGED <<editor, inserts, insertsAsked, editCommand, applying, applied>>
      BY <1>3 DEF Edits!DidChangeSent
  <2>2. /\ sent' \in [TextDocs -> Nat] /\ changes' \in Seq(TextChange) /\ handlers' \in Seq(TextChange)
        /\ \A d \in TextDocs : sent[d] <= sent'[d]
        /\ ToldInOrder'
      BY <1>1, <1>3, SentInOrder
  <2>3. ASSUME NEW r \in inserts PROVE r.version <= sent'[r.doc]
    <3>1. r.doc \in TextDocs /\ r.version \in Nat
        BY <1>1 DEF EditTypes, AutoInsert
    <3>2. r.version <= sent[r.doc] /\ sent[r.doc] \in Nat /\ sent'[r.doc] \in Nat
        BY <1>1, <2>2, <3>1 DEF EditTypes, Edits!AskedAfterChange
    <3>. QED BY <2>2, <3>1, <3>2
  <2>. QED BY <1>1, <2>1, <2>2, <2>3
           DEF EditsInv, EditTypes, OneAtATime, Edits!OneInsert, Edits!AppliedOnce, Edits!AskedAfterChange
<1>4. CASE Edits!Opened
  <2> DEFINE c == Head(handlers)
             made == [n |-> insertsAsked + 1, doc |-> c.doc, version |-> c.version,
                      cancelled |-> FALSE, answer |-> "none"]
  <2>1. /\ handlers # <<>> /\ handlers' = Tail(handlers)
        /\ UNCHANGED <<editor, sent, changes, editCommand, applying, applied>>
        /\ \/ UNCHANGED <<insertsAsked, inserts>>
           \/ /\ insertsAsked' = insertsAsked + 1
              /\ inserts' = {[r EXCEPT !.cancelled = TRUE] : r \in inserts} \cup {made}
      BY <1>4 DEF Edits!Opened, Edits!Insert
  <2>2. /\ handlers' \in Seq(TextChange) /\ ToldInOrder'
        /\ c \in TextChange /\ c.version <= sent[c.doc]
      BY <1>1, <2>1, HandlersTail
  <2>3. made \in AutoInsert /\ made.n = insertsAsked + 1 /\ made.version <= sent[made.doc]
      BY <1>1, <2>2 DEF EditTypes, TextChange, AutoInsert
  <2> HIDE DEF c, made
  <2>4. /\ inserts' \in SUBSET AutoInsert /\ insertsAsked' \in Nat
        /\ \A r \in inserts' : (~r.cancelled => r.n = insertsAsked') /\ r.version <= sent[r.doc]
    <3>1. CASE UNCHANGED <<insertsAsked, inserts>>
        BY <1>1, <3>1 DEF EditTypes, Edits!OneInsert, Edits!AskedAfterChange
    <3>2. CASE /\ insertsAsked' = insertsAsked + 1
               /\ inserts' = {[r EXCEPT !.cancelled = TRUE] : r \in inserts} \cup {made}
      <4>1. ASSUME NEW r \in inserts
            PROVE  LET x == [r EXCEPT !.cancelled = TRUE] IN
                   x \in AutoInsert /\ x.cancelled /\ x.version <= sent[x.doc]
          BY <1>1 DEF EditTypes, AutoInsert, Edits!AskedAfterChange
      <4>2. insertsAsked \in Nat
          BY <1>1 DEF EditTypes
      <4>3. insertsAsked' = insertsAsked + 1 /\ insertsAsked' \in Nat /\ made.n = insertsAsked'
          BY <2>3, <3>2, <4>2
      <4>4. ASSUME NEW r \in inserts'
            PROVE  r \in AutoInsert /\ (~r.cancelled => r.n = insertsAsked') /\ r.version <= sent[r.doc]
        <5>1. CASE r = made
            BY <2>3, <4>3, <5>1
        <5>2. CASE r # made
          <6>1. PICK q \in inserts : r = [q EXCEPT !.cancelled = TRUE]
              BY <3>2, <4>4, <5>2
          <6>. QED BY <4>1, <6>1
        <5>. QED BY <5>1, <5>2
      <4>. QED BY <4>3, <4>4
    <3>. QED BY <2>1, <3>1, <3>2
  <2>. QED BY <1>1, <2>1, <2>2, <2>4
           DEF EditsInv, EditTypes, OneAtATime, Edits!OneInsert, Edits!AppliedOnce, Edits!AskedAfterChange
<1>5. CASE Edits!Registration
    BY <1>1, <1>5 DEF Edits!Registration, EditsInv, EditTypes, ToldInOrder, OneAtATime, Edits!OneInsert,
                      Edits!AppliedOnce, Edits!AskedAfterChange
<1>6. ASSUME NEW r \in inserts, NEW answer \in {"edit", "nothing", "rejected"}, Edits!Answers(r, answer)
      PROVE  EditsInv'
  <2> DEFINE x == [r EXCEPT !.answer = answer]
  <2>1. /\ inserts' = (inserts \ {r}) \cup {x}
        /\ UNCHANGED <<editor, sent, changes, handlers, insertsAsked, editCommand, applying, applied>>
      BY <1>6 DEF Edits!Answers
  <2>2. /\ x \in AutoInsert /\ x.n = r.n /\ x.cancelled = r.cancelled /\ x.version = r.version /\ x.doc = r.doc
      BY <1>1 DEF EditTypes, AutoInsert
  <2> HIDE DEF x
  <2>3. inserts' \in SUBSET AutoInsert
      BY <1>1, <2>1, <2>2 DEF EditTypes
  <2>4. Edits!OneInsert' /\ Edits!AskedAfterChange'
      BY <1>1, <2>1, <2>2 DEF Edits!OneInsert, Edits!AskedAfterChange
  <2>. QED BY <1>1, <2>1, <2>3, <2>4 DEF EditsInv, EditTypes, ToldInOrder, OneAtATime, Edits!AppliedOnce
<1>7. ASSUME NEW r \in inserts, Edits!Inserted(r) PROVE EditsInv'
  <2> DEFINE e == [by |-> r.n, doc |-> r.doc, on |-> sent[r.doc]]
  <2>1. /\ inserts' = inserts \ {r} /\ applying' \in {applying, applying \cup {e}}
        /\ UNCHANGED <<editor, sent, changes, handlers, insertsAsked, editCommand, applied>>
      BY <1>7 DEF Edits!Inserted, Edits!Edit
  <2>2. e \in AppliedEdit /\ e.by # 0
      BY <1>1 DEF EditTypes, AutoInsert, AppliedEdit
  <2> HIDE DEF e
  <2>3. EditTypes'
      BY <1>1, <2>1, <2>2 DEF EditTypes
  <2>4. OneAtATime'
      BY <1>1, <2>1, <2>2 DEF OneAtATime
  <2>. QED BY <1>1, <2>1, <2>3, <2>4
           DEF EditsInv, ToldInOrder, Edits!OneInsert, Edits!AppliedOnce, Edits!AskedAfterChange
<1>8. ASSUME NEW kind \in {"completion", "nested", "fixAll"}, NEW d \in TextDocs, Edits!Begins(kind, d)
      PROVE  EditsInv'
  <2>1. /\ editCommand.kind = "none"
        /\ \E step \in {"opening", "picking", "scope"} :
              editCommand' = [kind |-> kind, doc |-> d, tries |-> 0, step |-> step]
        /\ UNCHANGED <<editor, sent, changes, handlers, inserts, insertsAsked, applying, applied>>
      BY <1>8 DEF Edits!Begins
  <2>2. PICK step \in {"opening", "picking", "scope"} :
              editCommand' = [kind |-> kind, doc |-> d, tries |-> 0, step |-> step]
      BY <2>1
  <2>3. EditTypes'
      BY <1>1, <2>1, <2>2 DEF EditTypes, CommandSteps, NotBegun
  <2>4. OneAtATime'
      BY <1>1, <2>1, <2>2 DEF OneAtATime, NotBegun
  <2>5. Edits!AppliedOnce'
      BY <1>1, <2>1, <2>2 DEF OneAtATime, Edits!AppliedOnce
  <2>. QED BY <1>1, <2>1, <2>3, <2>4, <2>5
           DEF EditsInv, ToldInOrder, Edits!OneInsert, Edits!AskedAfterChange
<1>9. CASE Edits!Shown \/ Edits!Unshown \/ Edits!Picked \/ Edits!ScopePicked \/ Edits!Dismissed
           \/ Edits!ResolveCancelled \/ Edits!ResolvedEmpty \/ Edits!Resolved
  <2>1. PICK from \in NotBegun \ {"nothing", "dismissed", "cancelled"},
             to \in {"picking", "scope", "resolving", "nothing", "dismissed", "cancelled", "trying", "failed"},
             kind \in {"completion", "nested", "fixAll", editCommand.kind} :
             Edits!From(from, kind, to)
      BY <1>9 DEF Edits!Shown, Edits!Unshown, Edits!Picked, Edits!ScopePicked, Edits!Dismissed,
                  Edits!ResolveCancelled, Edits!ResolvedEmpty, Edits!Resolved, Edits!At, NotBegun
  <2>. QED BY <2>1, CommandKeeps DEF CommandSteps, NotBegun
<1>10. CASE Edits!Tries
  <2> DEFINE e == [by |-> 0, doc |-> editCommand.doc, on |-> sent[editCommand.doc]]
  <2>1. /\ editCommand.step = "trying"
        /\ editCommand' = [editCommand EXCEPT !.step = "applying", !.tries = @ + 1]
        /\ applying' = applying \cup {e}
        /\ UNCHANGED <<editor, sent, changes, handlers, inserts, insertsAsked, applied>>
      BY <1>10 DEF Edits!Tries, Edits!Edit
  <2>2. /\ editCommand.kind # "none" /\ editCommand.doc \in TextDocs /\ editCommand.tries \in Nat
        /\ \A f \in applying : f.by # 0
        /\ editCommand' = [kind |-> editCommand.kind, step |-> "applying", doc |-> editCommand.doc,
                           tries |-> editCommand.tries + 1]
      BY <1>1, <2>1 DEF EditTypes, OneAtATime
  <2>3. e \in AppliedEdit /\ e.by = 0
      BY <1>1, <2>2 DEF EditTypes, AppliedEdit
  <2> HIDE DEF e
  <2>4. EditTypes'
      BY <1>1, <2>1, <2>2, <2>3 DEF EditTypes, CommandSteps
  <2>5. OneAtATime'
      BY <1>1, <2>1, <2>2, <2>3 DEF OneAtATime, NotBegun
  <2>6. Edits!AppliedOnce'
      BY <1>1, <2>1, <2>2 DEF Edits!AppliedOnce
  <2>. QED BY <1>1, <2>1, <2>4, <2>5, <2>6
           DEF EditsInv, ToldInOrder, Edits!OneInsert, Edits!AskedAfterChange
<1>11. ASSUME NEW e \in applying, NEW success \in BOOLEAN, Edits!Applies(e, success)
       PROVE  EditsInv'
  <2>1. /\ applying' = applying \ {e}
        /\ UNCHANGED <<sent, handlers, inserts, insertsAsked>>
        /\ e \in AppliedEdit
      BY <1>1, <1>11 DEF Edits!Applies, EditTypes
  <2>2. editor' \in [TextDocs -> Nat] /\ changes' \in Seq(TextChange) /\ ToldInOrder'
    <3>1. CASE success
      <4>1. Edits!Changed(e.doc, "replaced") /\ e.doc \in TextDocs
          BY <1>11, <2>1, <3>1 DEF Edits!Applies, AppliedEdit
      <4>. QED BY <1>1, <2>1, <4>1, ChangedInOrder
    <3>2. CASE ~success
      <4>1. UNCHANGED <<editor, changes>>
          BY <1>11, <3>2 DEF Edits!Applies
      <4>. QED BY <1>1, <2>1, <4>1 DEF EditTypes, ToldInOrder
    <3>. QED BY <3>1, <3>2
  <2>3. CASE e.by = 0
    <3>1. /\ editCommand.step = "applying" /\ editCommand.kind # "none" /\ editCommand.doc \in TextDocs
          /\ applied = 0 /\ \A f \in applying' : f.by # 0
        BY <1>1, <2>1, <2>3 DEF OneAtATime, Edits!AppliedOnce, NotBegun
    <3>2. \E step \in {"done", "trying", "failed"} :
             /\ editCommand' = [editCommand EXCEPT !.step = step]
             /\ step = "done" <=> success
             /\ applied' = IF success THEN applied + 1 ELSE applied
        BY <1>11, <2>3 DEF Edits!Applies, Edits!NextStep
    <3>3. PICK step \in {"done", "trying", "failed"} :
             /\ editCommand' = [editCommand EXCEPT !.step = step]
             /\ step = "done" <=> success
             /\ applied' = IF success THEN applied + 1 ELSE applied
        BY <3>2
    <3>4. editCommand' = [kind |-> editCommand.kind, step |-> step, doc |-> editCommand.doc,
                          tries |-> editCommand.tries]
        BY <1>1, <3>3 DEF EditTypes
    <3>5. applied' \in Nat /\ Edits!AppliedOnce'
        BY <3>1, <3>3, <3>4 DEF Edits!AppliedOnce
    <3>6. EditTypes'
        BY <1>1, <2>1, <2>2, <3>4, <3>5 DEF EditTypes, CommandSteps
    <3>7. OneAtATime'
        BY <1>1, <2>1, <3>1, <3>4 DEF OneAtATime, NotBegun
    <3>. QED BY <1>1, <2>1, <2>2, <3>5, <3>6, <3>7
             DEF EditsInv, Edits!OneInsert, Edits!AskedAfterChange
  <2>4. CASE e.by # 0
    <3>1. UNCHANGED <<editCommand, applied>>
        BY <1>11, <2>4 DEF Edits!Applies
    <3>2. EditTypes'
        BY <1>1, <2>1, <2>2, <3>1 DEF EditTypes
    <3>3. OneAtATime'
        BY <1>1, <2>1, <3>1 DEF OneAtATime
    <3>. QED BY <1>1, <2>1, <2>2, <3>1, <3>2, <3>3
             DEF EditsInv, Edits!OneInsert, Edits!AppliedOnce, Edits!AskedAfterChange
  <2>. QED BY <2>3, <2>4
<1>. QED BY <1>2, <1>3, <1>4, <1>5, <1>6, <1>7, <1>8, <1>9, <1>10, <1>11 DEF Edits!Next, Edits!Commands

\* Of the requests for what to insert the last alone has a token and none is ahead of the
\* server, and a command that ends well has applied its edit once, one that fails never
\* (onAutoInsert.ts:15-17, 82-93, serverCommands.ts:118-146).
THEOREM EditsCorrect == WorkspaceSpec => []EditsFit
<1>1. WorkspaceInit => EditsInv
    BY InitEditsInv DEF WorkspaceInit
<1>2. EditsInv /\ UNCHANGED editVars => EditsInv'
    BY DEF EditsInv, EditTypes, ToldInOrder, OneAtATime, Edits!OneInsert, Edits!AppliedOnce,
           Edits!AskedAfterChange, editVars
<1>3. [WorkspaceNext]_workspaceVars => Edits!Next \/ UNCHANGED editVars
    BY DEF WorkspaceNext, workspaceVars
<1>4. EditsInv => EditsFit
    BY DEF EditsInv, EditsFit, Edits!EditsFit
<1>. QED BY <1>1, <1>2, <1>3, <1>4, NextEditsInv, PTL DEF WorkspaceSpec

-----------------------------------------------------------------------------
(* The debug sessions.                                                       *)

Fields == {"type", "request", "folder", "process", "envFile", "env", "launchEnv", "option",
           "targetArchitecture", "platform", "assetsPath", "program"}

\* What a launch is resolved from.
IsConfiguration(c) ==
    /\ c = [f \in DOMAIN c |-> c[f]] /\ Fields \subseteq DOMAIN c
    /\ DOMAIN c.launchEnv \subseteq DOMAIN c.env
    /\ \A k \in DOMAIN c.launchEnv : c.env[k] = c.launchEnv[k]

\* The steps between the substitution of variables and the end of a session.
LateSteps == {"pick", "certificate", "assets", "resolved", "running"}

LaunchTypes ==
    /\ launch = [l \in Launches |-> launch[l]]
    /\ \A l \in Launches : launch[l] = [step |-> launch[l].step, config |-> launch[l].config,
                                        pipe |-> launch[l].pipe, early |-> launch[l].early]

\* Where the assets of a WebAssembly project are found.
HasAssets(e) ==
    LET framed == SelectSeq(e.projects, LAMBDA k : k \in {"wasm8", "wasm9"})
    IN  /\ e.running
        /\ \E i \in DOMAIN e.projects : e.projects[i] \in {"wasm", "wasm8", "wasm9"}
        /\ e.devKit \/ (framed # <<>> /\ Head(framed) = "wasm9")

\* The steps before the assets are found.
EarlySteps == {"service", "noConfiguration", "substitute", "pick", "certificate", "assets"}

\* What is known of a configuration at each step.
ResolvedSoFar(step, c, e) ==
    /\ step # "idle" => IsConfiguration(c)
    /\ step \in EarlySteps => c.assetsPath \in {"none", "given"}
    /\ step \in {"substitute"} \cup LateSteps => c.type # "dotnet"
    /\ step \in LateSteps \ {"pick"} /\ c.request = "attach" => c.process
    /\ step \in LateSteps /\ c.request = "launch" => c.envFile = ""
    /\ step \in {"resolved", "running"} /\ Sessions!RunsInBrowser(c) =>
           c.assetsPath = "given" \/ (c.assetsPath = "found" /\ HasAssets(e))

AllResolved == \A l \in Launches : ResolvedSoFar(launch[l].step, launch[l].config, environment)

PipeKnown ==
    /\ tracking = ~pipe /\ pipe \in BOOLEAN
    /\ sessions = IF tracking THEN {l \in Launches : launch[l].step = "running"} ELSE {}
    /\ pipe => \A l \in Launches :
                   launch[l].step \in LateSteps => launch[l].pipe \/ l \in told \/ launch[l].early

ListenersFit ==
    /\ listeners \subseteq Launches /\ IsFiniteSet(listeners)
    /\ companions \in Nat /\ resolutions \in Nat
    /\ companions + Cardinality(listeners) = resolutions
    /\ \A l \in listeners :
           launch[l].step \notin {"idle", "service", "noConfiguration", "running", "ended"}

SessionsInv == environment \in Environments /\ LaunchTypes /\ AllResolved /\ PipeKnown /\ ListenersFit

\* No session and no companion at first.
LEMMA InitSessionsInv == Sessions!Init => SessionsInv
<1> SUFFICES ASSUME Sessions!Init PROVE SessionsInv
    OBVIOUS
<1>1. /\ launch = [l \in Launches |-> [step |-> "idle", config |-> <<>>, pipe |-> FALSE, early |-> FALSE]]
      /\ listeners = {} /\ resolutions = 0 /\ companions = 0
      /\ tracking = TRUE /\ sessions = {} /\ pipe = FALSE /\ told = {}
    BY DEF Sessions!Init, Sessions!Idle
<1>2. \A l \in Launches : launch[l] = [step |-> "idle", config |-> <<>>, pipe |-> FALSE, early |-> FALSE]
    BY <1>1
<1>3. LaunchTypes
    BY <1>1, <1>2 DEF LaunchTypes
<1>4. AllResolved
  <2> SUFFICES ASSUME NEW l \in Launches
               PROVE  ResolvedSoFar(launch[l].step, launch[l].config, environment)
      BY DEF AllResolved
  <2>1. launch[l].step = "idle"
      BY <1>2
  <2>. QED BY <2>1 DEF ResolvedSoFar, LateSteps, EarlySteps
<1>5. PipeKnown
    BY <1>1, <1>2 DEF PipeKnown
<1>6. ListenersFit
    BY <1>1, FS_EmptySet DEF ListenersFit
<1>. QED BY <1>3, <1>4, <1>5, <1>6 DEF SessionsInv, Sessions!Init

\* A step of one launch leaves the others alone.
LEMMA OneGoes ==
    ASSUME LaunchTypes, NEW l \in Launches, NEW step, NEW config,
           \/ Sessions!GoesWith(l, step, config)
           \/ Sessions!Goes(l, step) /\ config = launch[l].config
    PROVE  /\ launch' = [launch EXCEPT ![l] = [step |-> step, config |-> config, pipe |-> launch[l].pipe,
                                               early |-> launch[l].early]]
           /\ LaunchTypes'
           /\ launch'[l].step = step /\ launch'[l].config = config
           /\ launch'[l].pipe = launch[l].pipe /\ launch'[l].early = launch[l].early
           /\ \A k \in Launches : k # l => launch'[k] = launch[k]
<1> DEFINE r == [step |-> step, config |-> config, pipe |-> launch[l].pipe, early |-> launch[l].early]
<1>1. /\ launch = [k \in Launches |-> launch[k]]
      /\ launch[l] = [step |-> launch[l].step, config |-> launch[l].config,
                      pipe |-> launch[l].pipe, early |-> launch[l].early]
    BY DEF LaunchTypes
<1>2. launch' = [launch EXCEPT ![l] = r]
  <2>1. CASE Sessions!GoesWith(l, step, config)
    <3> DEFINE s == [launch[l] EXCEPT !.step = step]
    <3>1. launch' = [launch EXCEPT ![l] = [s EXCEPT !.config = config]]
        BY <1>1, <2>1 DEF Sessions!GoesWith
    <3>2. s = [step |-> step, config |-> launch[l].config, pipe |-> launch[l].pipe, early |-> launch[l].early]
        BY <1>1
    <3> HIDE DEF s
    <3>3. [s EXCEPT !.config = config] = r
        BY <3>2
    <3>. QED BY <3>1, <3>3
  <2>2. CASE Sessions!Goes(l, step) /\ config = launch[l].config
    <3>1. launch' = [launch EXCEPT ![l] = [launch[l] EXCEPT !.step = step]]
        BY <2>2 DEF Sessions!Goes
    <3>2. [launch[l] EXCEPT !.step = step] = r
        BY <1>1, <2>2
    <3>. QED BY <3>1, <3>2
  <2>. QED BY <2>1, <2>2
<1>3. /\ r = [step |-> r.step, config |-> r.config, pipe |-> r.pipe, early |-> r.early]
      /\ r.step = step /\ r.config = config /\ r.pipe = launch[l].pipe /\ r.early = launch[l].early
    OBVIOUS
<1> HIDE DEF r
<1>4. launch' = [k \in Launches |-> launch'[k]] /\ launch'[l] = r
      /\ \A k \in Launches : k # l => launch'[k] = launch[k]
    BY <1>1, <1>2
<1>5. LaunchTypes'
    BY <1>3, <1>4 DEF LaunchTypes
<1>. QED BY <1>2, <1>3, <1>4, <1>5 DEF r

\* A step to a configuration that is as far resolved keeps what is known of all.
LEMMA GoesResolved ==
    ASSUME AllResolved, UNCHANGED environment, NEW l \in Launches,
           ResolvedSoFar(launch'[l].step, launch'[l].config, environment),
           \A k \in Launches : k # l => launch'[k] = launch[k]
    PROVE  AllResolved'
<1> SUFFICES ASSUME NEW k \in Launches
             PROVE  ResolvedSoFar(launch'[k].step, launch'[k].config, environment)
    BY DEF AllResolved
<1>1. CASE k = l
    BY <1>1
<1>2. CASE k # l
    BY <1>2 DEF AllResolved
<1>. QED BY <1>1, <1>2

\* A launch that gets no later than it was keeps what is known of the pipe.
LEMMA GoesPipe ==
    ASSUME PipeKnown, UNCHANGED <<tracking, sessions, pipe, told>>, NEW l \in Launches,
           launch'[l].step # "running", launch[l].step # "running",
           launch'[l].step \in LateSteps => launch[l].step \in LateSteps,
           launch'[l].pipe = launch[l].pipe, launch'[l].early = launch[l].early,
           \A k \in Launches : k # l => launch'[k] = launch[k]
    PROVE  PipeKnown'
<1>1. \A k \in Launches : launch'[k].step = "running" <=> launch[k].step = "running"
    OBVIOUS
<1>2. \A k \in Launches : launch'[k].step \in LateSteps => launch[k].step \in LateSteps
    OBVIOUS
<1>3. \A k \in Launches : launch'[k].pipe = launch[k].pipe /\ launch'[k].early = launch[k].early
    OBVIOUS
<1>4. sessions' = IF tracking' THEN {k \in Launches : launch'[k].step = "running"} ELSE {}
    BY <1>1 DEF PipeKnown
<1>. QED BY <1>2, <1>3, <1>4 DEF PipeKnown

\* A launch that neither starts nor ends a session, to where its pipe is as known as before.
LEMMA GoesKeeps ==
    ASSUME SessionsInv, NEW l \in Launches, NEW step, NEW config,
           \/ Sessions!GoesWith(l, step, config)
           \/ Sessions!Goes(l, step) /\ config = launch[l].config,
           UNCHANGED <<listeners, resolutions, companions, tracking, sessions, pipe, told, environment>>,
           step # "running", launch[l].step # "running",
           step \in LateSteps => launch[l].step \in LateSteps,
           l \in listeners => step \notin {"idle", "service", "noConfiguration", "ended"},
           ResolvedSoFar(step, config, environment)
    PROVE  SessionsInv'
<1>1. LaunchTypes /\ AllResolved /\ PipeKnown /\ ListenersFit
    BY DEF SessionsInv
<1>2. /\ LaunchTypes'
      /\ launch'[l].step = step /\ launch'[l].config = config
      /\ launch'[l].pipe = launch[l].pipe /\ launch'[l].early = launch[l].early
      /\ \A k \in Launches : k # l => launch'[k] = launch[k]
    BY <1>1, OneGoes
<1>3. AllResolved'
    BY <1>1, <1>2, GoesResolved
<1>4. PipeKnown'
    BY <1>1, <1>2, GoesPipe
<1>5. ListenersFit'
    BY <1>1, <1>2 DEF ListenersFit
<1>. QED BY <1>2, <1>3, <1>4, <1>5 DEF SessionsInv

\* Settings change the option of a configuration alone.
LEMMA LoadedConfiguration ==
    ASSUME NEW c, IsConfiguration(c)
    PROVE  /\ IsConfiguration(Sessions!LoadSettingDebugOptions(c))
           /\ Sessions!LoadSettingDebugOptions(c).type = c.type
           /\ Sessions!LoadSettingDebugOptions(c).assetsPath = c.assetsPath
<1> DEFINE o == IF c.option = "" /\ environment.option # "" THEN environment.option ELSE c.option
           d == [c EXCEPT !.option = o]
<1>1. Sessions!LoadSettingDebugOptions(c) = d
    BY DEF Sessions!LoadSettingDebugOptions
<1> HIDE DEF o
<1>2. /\ d = [f \in DOMAIN d |-> d[f]] /\ DOMAIN d = DOMAIN c
      /\ d.type = c.type /\ d.env = c.env /\ d.launchEnv = c.launchEnv /\ d.assetsPath = c.assetsPath
    BY DEF IsConfiguration, Fields
<1>. QED BY <1>1, <1>2 DEF IsConfiguration

\* The variables of the environment file come after those of launch.json.
LEMMA ParsedConfiguration ==
    ASSUME NEW c, IsConfiguration(c)
    PROVE  /\ IsConfiguration(Sessions!ParseEnvFile(c))
           /\ Sessions!ParseEnvFile(c).envFile = ""
           /\ Sessions!ParseEnvFile(c).type = c.type /\ Sessions!ParseEnvFile(c).request = c.request
           /\ Sessions!ParseEnvFile(c).process = c.process
           /\ Sessions!ParseEnvFile(c).assetsPath = c.assetsPath
<1>1. CASE c.envFile = ""
    BY <1>1 DEF Sessions!ParseEnvFile
<1>2. CASE c.envFile # ""
  <2> DEFINE e == Sessions!CreateFromContent(EnvironmentFiles[c.envFile], c.env).env
             b == [c EXCEPT !.env = e]
             d == [b EXCEPT !.envFile = ""]
  <2>1. Sessions!ParseEnvFile(c) = d
      BY <1>2 DEF Sessions!ParseEnvFile
  <2>2. DOMAIN c.env \subseteq DOMAIN e /\ \A k \in DOMAIN c.env : e[k] = c.env[k]
    <3>1. ASSUME NEW env, NEW K, NEW F(_), NEW w
          PROVE  LET x == [env |-> [k \in DOMAIN env \cup K |-> IF k \in DOMAIN env THEN env[k] ELSE F(k)],
                           warned |-> w].env
                 IN  DOMAIN env \subseteq DOMAIN x /\ \A k \in DOMAIN env : x[k] = env[k]
        OBVIOUS
    <3>. QED BY <3>1 DEF Sessions!CreateFromContent
  <2> HIDE DEF e
  <2>3. /\ b = [f \in DOMAIN b |-> b[f]] /\ DOMAIN b = DOMAIN c /\ b.env = e
        /\ \A f \in DOMAIN c : f # "env" => b[f] = c[f]
      BY DEF IsConfiguration, Fields
  <2> HIDE DEF b
  <2>4. /\ d = [f \in DOMAIN d |-> d[f]] /\ DOMAIN d = DOMAIN c /\ d.envFile = ""
        /\ \A f \in DOMAIN c : f # "envFile" => d[f] = b[f]
      BY <2>3 DEF IsConfiguration, Fields
  <2> HIDE DEF d
  <2>5. /\ d.env = e /\ d.launchEnv = c.launchEnv /\ d.type = c.type /\ d.request = c.request
        /\ d.process = c.process /\ d.assetsPath = c.assetsPath
      BY <2>3, <2>4 DEF IsConfiguration, Fields
  <2>6. IsConfiguration(d)
      BY <2>2, <2>4, <2>5 DEF IsConfiguration
  <2>. QED BY <2>1, <2>4, <2>5, <2>6
<1>. QED BY <1>1, <1>2

\* What a launch begins with.
LEMMA BeginKeeps ==
    ASSUME SessionsInv, NEW l \in Launches, NEW c \in Configurations, Sessions!Begin(l, c)
    PROVE  SessionsInv'
<1>1. /\ launch[l].step = "idle" /\ l \notin listeners
      /\ UNCHANGED <<listeners, resolutions, companions, tracking, sessions, pipe, told, environment>>
    BY DEF Sessions!Begin, Sessions!Step, Sessions!KeepTracker, Sessions!KeepCompanions, SessionsInv,
           ListenersFit
<1>2. IsConfiguration(c) /\ c.assetsPath \in {"none", "given"}
    BY ConfigurationsAssumption DEF ConfigurationsAssumption, IsConfiguration, Fields
<1>3. CASE c.type = ""
  <2>1. Sessions!GoesWith(l, "noConfiguration", c)
      BY <1>3 DEF Sessions!Begin
  <2>2. ResolvedSoFar("noConfiguration", c, environment)
      BY <1>2 DEF ResolvedSoFar, LateSteps, EarlySteps
  <2>. QED BY <1>1, <2>1, <2>2, GoesKeeps DEF LateSteps
<1>4. CASE c.type = "dotnet"
  <2>1. Sessions!GoesWith(l, "service", c)
      BY <1>4 DEF Sessions!Begin
  <2>2. ResolvedSoFar("service", c, environment)
      BY <1>2 DEF ResolvedSoFar, LateSteps, EarlySteps
  <2>. QED BY <1>1, <2>1, <2>2, GoesKeeps DEF LateSteps
<1>5. CASE c.type \notin {"", "dotnet"}
  <2> DEFINE d == Sessions!LoadSettingDebugOptions(c)
  <2>1. Sessions!GoesWith(l, "substitute", d)
      BY <1>5 DEF Sessions!Begin
  <2>2. IsConfiguration(d) /\ d.type = c.type /\ d.assetsPath = c.assetsPath
      BY <1>2, LoadedConfiguration
  <2> HIDE DEF d
  <2>3. ResolvedSoFar("substitute", d, environment)
      BY <1>2, <1>5, <2>2 DEF ResolvedSoFar, LateSteps, EarlySteps
  <2>. QED BY <1>1, <2>1, <2>3, GoesKeeps DEF LateSteps
<1>. QED BY <1>3, <1>4, <1>5

\* The service answers with one configuration, two or none.
LEMMA AnswerKeeps ==
    ASSUME SessionsInv, NEW l \in Launches, Sessions!ServiceAnswers(l)
    PROVE  SessionsInv'
<1> DEFINE c == launch[l].config
           result == Sessions!ResolveDotnet(c)
           d == [c EXCEPT !.program = Sessions!Program(c), !.type = "coreclr"]
<1>1. /\ launch[l].step = "service"
      /\ UNCHANGED <<companions, tracking, sessions, pipe, told, environment>>
      /\ IF result = "resolved" THEN Sessions!GoesWith(l, "substitute", d) ELSE Sessions!Goes(l, result)
      /\ IF result = "resolved" /\ environment.service = "two"
         THEN listeners' = listeners \cup {l} /\ resolutions' = resolutions + 1
         ELSE UNCHANGED <<listeners, resolutions>>
    BY DEF Sessions!ServiceAnswers, Sessions!Step, Sessions!Config, Sessions!KeepTracker
<1>2. LaunchTypes /\ AllResolved /\ PipeKnown /\ ListenersFit
    BY DEF SessionsInv
<1>3. l \notin listeners /\ IsConfiguration(c) /\ c.assetsPath \in {"none", "given"}
    BY <1>1, <1>2 DEF ListenersFit, AllResolved, ResolvedSoFar, EarlySteps
<1>4. result \in {"resolved", "failed", "cancelled", "blazor"}
  <2>1. environment.service \in {"", "cancelled", "error", "one", "two", "none of it"}
      BY EnvironmentsAssumption DEF EnvironmentsAssumption, SessionsInv
  <2>2. environment.service # "" => Sessions!ByService(c) \in {"resolved", "failed", "cancelled"}
      BY <2>1 DEF Sessions!ByService
  <2>3. Sessions!ByProjects(c) \in {"resolved", "failed", "blazor"}
      BY DEF Sessions!ByProjects
  <2>4. \/ result = "failed" \/ result = Sessions!ByProjects(c)
        \/ environment.service # "" /\ result = Sessions!ByService(c)
      BY DEF Sessions!ResolveDotnet
  <2>. QED BY <2>2, <2>3, <2>4
<1> HIDE DEF result
<1>5. CASE result # "resolved"
  <2>1. Sessions!Goes(l, result) /\ UNCHANGED <<listeners, resolutions>> /\ result \in {"failed", "cancelled", "blazor"}
      BY <1>1, <1>4, <1>5
  <2>2. ResolvedSoFar(result, c, environment)
      BY <1>3, <2>1 DEF ResolvedSoFar, LateSteps, EarlySteps
  <2>. QED BY <1>1, <1>3, <2>1, <2>2, GoesKeeps DEF LateSteps
<1>6. CASE result = "resolved"
  <2>1. Sessions!GoesWith(l, "substitute", d)
      BY <1>1, <1>6
  <2>2. IsConfiguration(d) /\ d.type = "coreclr" /\ d.assetsPath = c.assetsPath
    <3> DEFINE b == [c EXCEPT !.program = Sessions!Program(c)]
    <3>1. /\ b = [f \in DOMAIN b |-> b[f]] /\ DOMAIN b = DOMAIN c
          /\ b.env = c.env /\ b.launchEnv = c.launchEnv /\ b.assetsPath = c.assetsPath
        BY <1>3 DEF IsConfiguration, Fields
    <3>2. d = [b EXCEPT !.type = "coreclr"]
        OBVIOUS
    <3> HIDE DEF b, d
    <3>3. /\ d = [f \in DOMAIN d |-> d[f]] /\ DOMAIN d = DOMAIN c
          /\ d.type = "coreclr" /\ d.env = c.env /\ d.launchEnv = c.launchEnv
          /\ d.assetsPath = c.assetsPath
        BY <1>3, <3>1, <3>2 DEF IsConfiguration, Fields
    <3>. QED BY <1>3, <3>3 DEF IsConfiguration
  <2> HIDE DEF d
  <2>3. ResolvedSoFar("substitute", d, environment)
      BY <1>3, <2>2 DEF ResolvedSoFar, LateSteps, EarlySteps
  <2>4. CASE UNCHANGED <<listeners, resolutions>>
      BY <1>1, <1>3, <2>1, <2>3, <2>4, GoesKeeps DEF LateSteps
  <2>5. CASE listeners' = listeners \cup {l} /\ resolutions' = resolutions + 1
    <3>1. /\ LaunchTypes'
          /\ launch'[l].step = "substitute" /\ launch'[l].config = d
          /\ launch'[l].pipe = launch[l].pipe /\ launch'[l].early = launch[l].early
          /\ \A k \in Launches : k # l => launch'[k] = launch[k]
        BY <1>2, <2>1, OneGoes
    <3>2. AllResolved'
        BY <1>1, <1>2, <2>3, <3>1, GoesResolved
    <3>3. PipeKnown'
        BY <1>1, <1>2, <3>1, GoesPipe DEF LateSteps
    <3>4. /\ listeners' \subseteq Launches /\ IsFiniteSet(listeners')
          /\ Cardinality(listeners') = Cardinality(listeners) + 1 /\ Cardinality(listeners) \in Nat
        BY <1>2, <1>3, <2>5, FS_AddElement, FS_CardinalityType DEF ListenersFit
    <3>5. companions' \in Nat /\ resolutions' \in Nat /\ companions' + Cardinality(listeners') = resolutions'
        BY <1>1, <1>2, <2>5, <3>4 DEF ListenersFit
    <3>6. ListenersFit'
        BY <1>2, <2>5, <3>1, <3>4, <3>5 DEF ListenersFit
    <3>. QED BY <1>1, <3>1, <3>2, <3>3, <3>6 DEF SessionsInv
  <2>. QED BY <1>1, <2>4, <2>5
<1>. QED BY <1>5, <1>6

\* Variables are substituted and the environment file is read; what waits from here on is
\* told of the pipe that is known by now.
LEMMA SubstituteKeeps ==
    ASSUME SessionsInv, NEW l \in Launches, Sessions!Substitute(l)
    PROVE  SessionsInv'
<1> DEFINE c == launch[l].config
           d == IF c.request = "launch" THEN Sessions!ParseEnvFile(c) ELSE c
<1>1. /\ launch[l].step = "substitute"
      /\ UNCHANGED <<listeners, resolutions, companions, tracking, sessions, pipe, told, environment>>
    BY DEF Sessions!Substitute, Sessions!Step, Sessions!KeepTracker, Sessions!KeepCompanions
<1>2. LaunchTypes /\ AllResolved /\ PipeKnown /\ ListenersFit
    BY DEF SessionsInv
<1>3. /\ IsConfiguration(c) /\ c.type # "dotnet" /\ c.assetsPath \in {"none", "given"}
      /\ launch[l] = [step |-> launch[l].step, config |-> c, pipe |-> launch[l].pipe, early |-> launch[l].early]
    BY <1>1, <1>2 DEF AllResolved, ResolvedSoFar, EarlySteps, LaunchTypes
<1>4. /\ IsConfiguration(d) /\ d.type # "dotnet" /\ d.request = c.request /\ d.process = c.process
      /\ d.request = "launch" => d.envFile = ""
      /\ d.assetsPath = c.assetsPath
  <2>1. CASE c.request = "launch"
    <3>1. d = Sessions!ParseEnvFile(c)
        BY <2>1
    <3> HIDE DEF c, d
    <3>2. /\ IsConfiguration(d) /\ d.envFile = "" /\ d.type = c.type /\ d.request = c.request
          /\ d.process = c.process /\ d.assetsPath = c.assetsPath
        BY <1>3, <3>1, ParsedConfiguration
    <3>. QED BY <1>3, <3>2
  <2>2. CASE c.request # "launch"
    <3>1. d = c
        BY <2>2
    <3>. QED BY <1>3, <2>2, <3>1
  <2>. QED BY <2>1, <2>2
<1> HIDE DEF d
<1>5. CASE Sessions!Goes(l, "failed")
  <2>1. ResolvedSoFar("failed", c, environment)
      BY <1>3 DEF ResolvedSoFar, LateSteps, EarlySteps
  <2>. QED BY <1>1, <1>5, <2>1, GoesKeeps DEF LateSteps
<1>6. CASE ~Sessions!Goes(l, "failed")
  <2>1. PICK step \in {"pick", "certificate", "assets"} :
          /\ launch' = [launch EXCEPT ![l].config = d, ![l].pipe = pipe, ![l].step = step]
          /\ step # "pick" => ~(c.request = "attach" /\ ~c.process)
      BY <1>6 DEF Sessions!Substitute, Sessions!Step, Sessions!Config, d
  <2> DEFINE r == [step |-> step, config |-> d, pipe |-> pipe, early |-> launch[l].early]
  <2>2. launch'[l] = r
    <3> DEFINE s1 == [launch[l] EXCEPT !.config = d]
               s2 == [s1 EXCEPT !.pipe = pipe]
    <3>1. launch'[l] = [s2 EXCEPT !.step = step]
        BY <1>2, <2>1 DEF LaunchTypes
    <3>2. s1 = [step |-> launch[l].step, config |-> d, pipe |-> launch[l].pipe, early |-> launch[l].early]
        BY <1>3
    <3> HIDE DEF s1
    <3>3. s2 = [step |-> launch[l].step, config |-> d, pipe |-> pipe, early |-> launch[l].early]
        BY <3>2
    <3> HIDE DEF s2
    <3>. QED BY <3>1, <3>3
  <2>3. /\ launch' = [k \in Launches |-> launch'[k]]
        /\ \A k \in Launches : k # l => launch'[k] = launch[k]
      BY <1>2, <2>1 DEF LaunchTypes
  <2>4. /\ launch'[l].step = step /\ launch'[l].config = d
        /\ launch'[l].pipe = pipe /\ launch'[l].early = launch[l].early
        /\ launch'[l] = [step |-> launch'[l].step, config |-> launch'[l].config,
                         pipe |-> launch'[l].pipe, early |-> launch'[l].early]
      BY <2>2
  <2>5. LaunchTypes'
      BY <1>2, <2>3, <2>4 DEF LaunchTypes
  <2>6. ResolvedSoFar(step, d, environment)
      BY <1>3, <1>4, <2>1 DEF ResolvedSoFar, LateSteps, EarlySteps
  <2>7. AllResolved'
      BY <1>1, <1>2, <2>3, <2>4, <2>6, GoesResolved
  <2>8. PipeKnown'
    <3>1. \A k \in Launches : launch'[k].step = "running" <=> launch[k].step = "running"
        BY <1>1, <2>1, <2>3, <2>4
    <3>2. sessions' = IF tracking' THEN {k \in Launches : launch'[k].step = "running"} ELSE {}
        BY <1>1, <1>2, <3>1 DEF PipeKnown
    <3>3. pipe => \A k \in Launches :
              launch'[k].step \in LateSteps => launch'[k].pipe \/ k \in told \/ launch'[k].early
        BY <1>2, <2>3, <2>4 DEF PipeKnown
    <3>. QED BY <1>1, <1>2, <3>2, <3>3 DEF PipeKnown
  <2>9. ListenersFit'
      BY <1>1, <1>2, <2>1, <2>3, <2>4 DEF ListenersFit
  <2>. QED BY <1>1, <2>5, <2>7, <2>8, <2>9 DEF SessionsInv
<1>. QED BY <1>5, <1>6

\* A process is picked, a certificate is found and the assets are.
LEMMA ResolveKeeps ==
    ASSUME SessionsInv, NEW l \in Launches,
           Sessions!Pick(l) \/ Sessions!Certificate(l) \/ Sessions!Assets(l)
    PROVE  SessionsInv'
<1> DEFINE c == launch[l].config
<1>1. UNCHANGED <<listeners, resolutions, companions, tracking, sessions, pipe, told, environment>>
    BY DEF Sessions!Pick, Sessions!Certificate, Sessions!Assets, Sessions!KeepTracker, Sessions!KeepCompanions
<1>2. ResolvedSoFar(launch[l].step, c, environment)
    BY DEF SessionsInv, AllResolved
<1>3. ASSUME IsConfiguration(c), launch[l].step # "running", launch[l].step \in LateSteps,
             Sessions!Goes(l, "cancelled")
      PROVE  SessionsInv'
  <2>1. ResolvedSoFar("cancelled", c, environment)
      BY <1>3 DEF ResolvedSoFar, LateSteps, EarlySteps
  <2>. QED BY <1>1, <1>3, <2>1, GoesKeeps DEF LateSteps
<1>4. CASE Sessions!Pick(l)
  <2>1. launch[l].step = "pick" /\ IsConfiguration(c)
      BY <1>2, <1>4 DEF Sessions!Pick, Sessions!Step, ResolvedSoFar, EarlySteps
  <2>2. CASE Sessions!Goes(l, "cancelled")
      BY <1>3, <2>1, <2>2 DEF LateSteps
  <2>3. CASE ~Sessions!Goes(l, "cancelled")
    <3>0. PICK step \in {"certificate", "assets"} : \E architecture :
            Sessions!GoesWith(l, step, [c EXCEPT !.process = TRUE, !.targetArchitecture = architecture])
        BY <1>4, <2>3 DEF Sessions!Pick, Sessions!Config
    <3>1. PICK architecture :
            Sessions!GoesWith(l, step, [c EXCEPT !.process = TRUE, !.targetArchitecture = architecture])
        BY <3>0
    <3> DEFINE b == [c EXCEPT !.process = TRUE]
               d == [b EXCEPT !.targetArchitecture = architecture]
    <3>2. Sessions!GoesWith(l, step, d)
        BY <3>1
    <3>3. /\ b = [f \in DOMAIN b |-> b[f]] /\ DOMAIN b = DOMAIN c /\ b.process = TRUE
          /\ \A f \in DOMAIN c : f # "process" => b[f] = c[f]
        BY <2>1 DEF IsConfiguration, Fields
    <3> HIDE DEF b
    <3>4. /\ d = [f \in DOMAIN d |-> d[f]] /\ DOMAIN d = DOMAIN c
          /\ \A f \in DOMAIN c : f # "targetArchitecture" => d[f] = b[f]
        BY <3>3 DEF IsConfiguration, Fields
    <3> HIDE DEF d
    <3>5. /\ d.env = c.env /\ d.launchEnv = c.launchEnv /\ d.type = c.type /\ d.request = c.request
          /\ d.process = TRUE /\ d.assetsPath = c.assetsPath /\ d.envFile = c.envFile
        BY <2>1, <3>3, <3>4 DEF IsConfiguration, Fields
    <3>6. IsConfiguration(d)
        BY <2>1, <3>4, <3>5 DEF IsConfiguration
    <3>7. ResolvedSoFar(step, d, environment)
        BY <1>2, <2>1, <3>5, <3>6 DEF ResolvedSoFar, LateSteps, EarlySteps
    <3>. QED BY <1>1, <2>1, <3>2, <3>7, GoesKeeps DEF LateSteps
  <2>. QED BY <2>2, <2>3
<1>5. CASE Sessions!Certificate(l)
  <2>1. launch[l].step = "certificate" /\ IsConfiguration(c)
      BY <1>2, <1>5 DEF Sessions!Certificate, Sessions!Step, ResolvedSoFar, EarlySteps
  <2>2. CASE Sessions!Goes(l, "cancelled")
      BY <1>3, <2>1, <2>2 DEF LateSteps
  <2>3. CASE Sessions!Goes(l, "assets")
    <3>1. ResolvedSoFar("assets", c, environment)
        BY <1>2, <2>1 DEF ResolvedSoFar, LateSteps, EarlySteps
    <3>. QED BY <1>1, <2>1, <2>3, <3>1, GoesKeeps DEF LateSteps
  <2>. QED BY <1>5, <2>2, <2>3 DEF Sessions!Certificate
<1>6. CASE Sessions!Assets(l)
  <2> DEFINE wants == Sessions!RunsInBrowser(c) /\ c.assetsPath = "none"
  <2>1. launch[l].step = "assets" /\ IsConfiguration(c)
      BY <1>2, <1>6 DEF Sessions!Assets, Sessions!Step, ResolvedSoFar, EarlySteps
  <2>2. c.assetsPath \in {"none", "given"}
      BY <1>2, <2>1 DEF ResolvedSoFar, EarlySteps
  <2>3. CASE ~wants
    <3>1. Sessions!Goes(l, "resolved")
        BY <1>6, <2>3 DEF Sessions!Assets, Sessions!Config
    <3>2. ResolvedSoFar("resolved", c, environment)
        BY <1>2, <2>1, <2>2, <2>3 DEF ResolvedSoFar, LateSteps, EarlySteps
    <3>. QED BY <1>1, <2>1, <3>1, <3>2, GoesKeeps DEF LateSteps
  <2>4. CASE wants /\ ~Sessions!AssetsPathAndProgram
    <3>1. Sessions!Goes(l, "cancelled")
        BY <1>6, <2>4 DEF Sessions!Assets, Sessions!Config
    <3>. QED BY <1>3, <2>1, <3>1 DEF LateSteps
  <2>5. CASE wants /\ Sessions!AssetsPathAndProgram
    <3> DEFINE b == [c EXCEPT !.assetsPath = "found"]
               d == [b EXCEPT !.program = Head(Sessions!Executables)]
    <3>1. Sessions!GoesWith(l, "resolved", d)
        BY <1>6, <2>5 DEF Sessions!Assets, Sessions!Config
    <3>2. /\ b = [f \in DOMAIN b |-> b[f]] /\ DOMAIN b = DOMAIN c /\ b.assetsPath = "found"
          /\ \A f \in DOMAIN c : f # "assetsPath" => b[f] = c[f]
        BY <2>1 DEF IsConfiguration, Fields
    <3> HIDE DEF b
    <3>3. /\ d = [f \in DOMAIN d |-> d[f]] /\ DOMAIN d = DOMAIN c
          /\ \A f \in DOMAIN c : f # "program" => d[f] = b[f]
        BY <3>2 DEF IsConfiguration, Fields
    <3> HIDE DEF d
    <3>4. /\ d.env = c.env /\ d.launchEnv = c.launchEnv /\ d.type = c.type /\ d.request = c.request
          /\ d.process = c.process /\ d.envFile = c.envFile /\ d.assetsPath = "found"
        BY <2>1, <3>2, <3>3 DEF IsConfiguration, Fields
    <3>5. IsConfiguration(d)
        BY <2>1, <3>3, <3>4 DEF IsConfiguration
    <3>6. HasAssets(environment)
        BY <2>5 DEF HasAssets, Sessions!AssetsPathAndProgram, Sessions!IsDotNet9OrNewer,
                    Sessions!WorkspaceDebugInformation, Sessions!WebAssembly
    <3>7. ResolvedSoFar("resolved", d, environment)
        BY <1>2, <2>1, <3>4, <3>5, <3>6 DEF ResolvedSoFar, LateSteps, EarlySteps
    <3>. QED BY <1>1, <2>1, <3>1, <3>7, GoesKeeps DEF LateSteps
  <2>. QED BY <2>3, <2>4, <2>5
<1>. QED BY <1>4, <1>5, <1>6

\* A session starts: the listeners of its name have their companions started.
LEMMA StartedKeeps ==
    ASSUME SessionsInv, NEW l \in Launches, Sessions!Started(l)
    PROVE  SessionsInv'
<1> DEFINE c == launch[l].config
           mine == {k \in listeners : Sessions!Config(k).name = Sessions!Config(l).name}
<1>1. /\ launch[l].step = "resolved" /\ Sessions!Goes(l, "running")
      /\ listeners' = listeners \ mine
      /\ companions' = companions + Cardinality(mine)
      /\ sessions' = IF tracking THEN sessions \cup {l} ELSE sessions
      /\ UNCHANGED <<resolutions, tracking, pipe, told, environment>>
  <2>1. companions' = companions + Cardinality(mine)
      BY DEF Sessions!Started, Sessions!Cardinality, Cardinality
  <2>2. /\ launch[l].step = "resolved" /\ Sessions!Goes(l, "running")
        /\ listeners' = listeners \ mine
        /\ sessions' = IF tracking THEN sessions \cup {l} ELSE sessions
        /\ UNCHANGED <<resolutions, tracking, pipe, told, environment>>
      BY DEF Sessions!Started, Sessions!Step
  <2>. QED BY <2>1, <2>2
<1>2. environment \in Environments /\ LaunchTypes /\ AllResolved /\ PipeKnown /\ ListenersFit
    BY DEF SessionsInv
<1>3. /\ LaunchTypes'
      /\ launch'[l].step = "running" /\ launch'[l].config = c
      /\ launch'[l].pipe = launch[l].pipe /\ launch'[l].early = launch[l].early
      /\ \A k \in Launches : k # l => launch'[k] = launch[k]
    BY <1>1, <1>2, OneGoes
<1>4. AllResolved'
  <2>1. ResolvedSoFar("resolved", c, environment)
      BY <1>1, <1>2 DEF AllResolved
  <2>2. ResolvedSoFar("running", c, environment)
      BY <2>1 DEF ResolvedSoFar, LateSteps, EarlySteps
  <2>. QED BY <1>1, <1>2, <1>3, <2>2, GoesResolved
<1>5. PipeKnown'
  <2>1. \A k \in Launches : launch'[k].step = "running" <=> launch[k].step = "running" \/ k = l
      BY <1>3
  <2>2. sessions' = IF tracking' THEN {k \in Launches : launch'[k].step = "running"} ELSE {}
    <3>1. CASE tracking
      <4>1. sessions = {k \in Launches : launch[k].step = "running"} /\ sessions' = sessions \cup {l}
          BY <1>1, <1>2, <3>1 DEF PipeKnown
      <4>. QED BY <1>1, <2>1, <3>1, <4>1
    <3>2. CASE ~tracking
        BY <1>1, <1>2, <3>2 DEF PipeKnown
    <3>. QED BY <3>1, <3>2
  <2>3. pipe => \A k \in Launches :
            launch'[k].step \in LateSteps => launch'[k].pipe \/ k \in told \/ launch'[k].early
      BY <1>1, <1>2, <1>3 DEF PipeKnown, LateSteps
  <2>. QED BY <1>1, <1>2, <2>2, <2>3 DEF PipeKnown
<1>6. ListenersFit'
  <2>1. mine \subseteq listeners /\ (l \in listeners => l \in mine)
      OBVIOUS
  <2> HIDE DEF mine
  <2>2. IsFiniteSet(listeners) /\ IsFiniteSet(mine) /\ IsFiniteSet(listeners \ mine)
      BY <1>2, <2>1, FS_Subset DEF ListenersFit
  <2>3. Cardinality(listeners) \in Nat /\ Cardinality(mine) \in Nat /\ Cardinality(listeners \ mine) \in Nat
      BY <2>2, FS_CardinalityType
  <2>4. Cardinality(listeners) = Cardinality(listeners \ mine) + Cardinality(mine)
    <3>1. (listeners \ mine) \cup mine = listeners /\ (listeners \ mine) \cap mine = {}
        BY <2>1
    <3>2. Cardinality((listeners \ mine) \cup mine) = Cardinality(listeners \ mine) + Cardinality(mine)
                                                      - Cardinality((listeners \ mine) \cap mine)
        BY <2>2, FS_Union
    <3>3. Cardinality((listeners \ mine) \cap mine) = 0
        BY <3>1, FS_EmptySet
    <3>4. Cardinality((listeners \ mine) \cup mine) = Cardinality(listeners)
        BY <3>1
    <3>. QED BY <2>3, <3>2, <3>3, <3>4
  <2>5. companions' \in Nat /\ resolutions' \in Nat /\ companions' + Cardinality(listeners') = resolutions'
      BY <1>1, <1>2, <2>3, <2>4 DEF ListenersFit
  <2>6. /\ listeners' \subseteq Launches /\ IsFiniteSet(listeners')
        /\ \A k \in listeners' : k \in listeners /\ k # l
      BY <1>1, <1>2, <2>1, <2>2 DEF ListenersFit
  <2>. QED BY <1>2, <1>3, <2>5, <2>6 DEF ListenersFit
<1>. QED BY <1>1, <1>2, <1>3, <1>4, <1>5, <1>6 DEF SessionsInv

\* A session does not start, or one ends.
LEMMA EndsKeep ==
    ASSUME SessionsInv, NEW l \in Launches, Sessions!NotStarted(l) \/ Sessions!Terminated(l) \/ Sessions!Provide(l)
    PROVE  SessionsInv'
<1> DEFINE c == launch[l].config
<1>1. environment \in Environments /\ LaunchTypes /\ AllResolved /\ PipeKnown /\ ListenersFit
    BY DEF SessionsInv
<1>2. /\ UNCHANGED <<listeners, resolutions, companions, tracking, pipe, told, environment>>
      /\ ResolvedSoFar(launch[l].step, c, environment)
    BY <1>1 DEF Sessions!NotStarted, Sessions!Terminated, Sessions!Provide, Sessions!KeepTracker,
                Sessions!KeepCompanions, AllResolved
<1>3. CASE Sessions!NotStarted(l)
  <2>1. launch[l].step = "resolved" /\ Sessions!Goes(l, "failed") /\ UNCHANGED sessions
      BY <1>3 DEF Sessions!NotStarted, Sessions!Step, Sessions!KeepTracker
  <2>2. ResolvedSoFar("failed", c, environment)
      BY <1>2, <2>1 DEF ResolvedSoFar, LateSteps, EarlySteps
  <2>. QED BY <1>2, <2>1, <2>2, GoesKeeps DEF LateSteps
<1>4. CASE Sessions!Provide(l)
  <2>1. /\ launch[l].step = "noConfiguration" /\ UNCHANGED sessions /\ l \notin listeners
        /\ Sessions!Goes(l, "failed") \/ Sessions!Goes(l, "idle")
      BY <1>1, <1>4 DEF Sessions!Provide, Sessions!Step, Sessions!KeepTracker, ListenersFit
  <2>2. /\ ResolvedSoFar("failed", c, environment)
        /\ ResolvedSoFar("idle", c, environment)
      BY <1>2, <2>1 DEF ResolvedSoFar, LateSteps, EarlySteps
  <2>. QED BY <1>2, <2>1, <2>2, GoesKeeps DEF LateSteps
<1>5. CASE Sessions!Terminated(l)
  <2>1. launch[l].step = "running" /\ Sessions!Goes(l, "ended") /\ sessions' = sessions \ {l}
      BY <1>5 DEF Sessions!Terminated, Sessions!Step
  <2>2. /\ LaunchTypes'
        /\ launch'[l].step = "ended" /\ launch'[l].config = c
        /\ launch'[l].pipe = launch[l].pipe /\ launch'[l].early = launch[l].early
        /\ \A k \in Launches : k # l => launch'[k] = launch[k]
      BY <1>1, <2>1, OneGoes
  <2>3. AllResolved'
    <3>1. ResolvedSoFar("ended", c, environment)
        BY <1>2, <2>1 DEF ResolvedSoFar, LateSteps, EarlySteps
    <3>. QED BY <1>1, <1>2, <2>2, <3>1, GoesResolved
  <2>4. PipeKnown'
    <3>1. \A k \in Launches : launch'[k].step = "running" <=> launch[k].step = "running" /\ k # l
        BY <2>2
    <3>2. sessions' = IF tracking' THEN {k \in Launches : launch'[k].step = "running"} ELSE {}
      <4>1. CASE tracking
        <5>1. sessions = {k \in Launches : launch[k].step = "running"}
            BY <1>1, <4>1 DEF PipeKnown
        <5>. QED BY <1>2, <2>1, <3>1, <4>1, <5>1
      <4>2. CASE ~tracking
          BY <1>1, <1>2, <2>1, <4>2 DEF PipeKnown
      <4>. QED BY <4>1, <4>2
    <3>3. pipe => \A k \in Launches :
              launch'[k].step \in LateSteps => launch'[k].pipe \/ k \in told \/ launch'[k].early
        BY <1>1, <2>2 DEF PipeKnown, LateSteps
    <3>. QED BY <1>1, <1>2, <3>2, <3>3 DEF PipeKnown
  <2>5. ListenersFit'
      BY <1>1, <1>2, <2>1, <2>2 DEF ListenersFit
  <2>. QED BY <1>1, <1>2, <2>2, <2>3, <2>4, <2>5 DEF SessionsInv
<1>. QED BY <1>3, <1>4, <1>5

\* C# Dev Kit is there: what runs is told of its pipe.
LEMMA DevKitKeeps == SessionsInv /\ Sessions!OnCsDevKitInitialized => SessionsInv'
<1> SUFFICES ASSUME SessionsInv, Sessions!OnCsDevKitInitialized PROVE SessionsInv'
    OBVIOUS
<1>1. environment \in Environments /\ LaunchTypes /\ AllResolved /\ PipeKnown /\ ListenersFit
    BY DEF SessionsInv
<1>2. /\ pipe' = TRUE /\ told' = sessions /\ tracking' = FALSE /\ sessions' = {} /\ ~pipe
      /\ launch' = [l \in Launches |-> [launch[l] EXCEPT
                        !.early = launch[l].step \in {"pick", "certificate", "assets", "resolved"}]]
      /\ UNCHANGED <<environment, listeners, resolutions, companions>>
    BY DEF Sessions!OnCsDevKitInitialized, Sessions!Step, Sessions!KeepCompanions
<1> DEFINE waits(l) == launch[l].step \in {"pick", "certificate", "assets", "resolved"}
<1> HIDE DEF waits
<1>3. ASSUME NEW l \in Launches
      PROVE  launch'[l] = [step |-> launch[l].step, config |-> launch[l].config, pipe |-> launch[l].pipe,
                           early |-> waits(l)]
  <2>1. launch[l] = [step |-> launch[l].step, config |-> launch[l].config, pipe |-> launch[l].pipe,
                     early |-> launch[l].early]
      BY <1>1 DEF LaunchTypes
  <2>2. launch'[l] = [launch[l] EXCEPT !.early = waits(l)]
      BY <1>2 DEF waits
  <2>. QED BY <2>1, <2>2
<1>4. \A l \in Launches : /\ launch'[l].step = launch[l].step /\ launch'[l].config = launch[l].config
                          /\ launch'[l].pipe = launch[l].pipe /\ launch'[l].early = waits(l)
  <2> SUFFICES ASSUME NEW l \in Launches
               PROVE  /\ launch'[l].step = launch[l].step /\ launch'[l].config = launch[l].config
                      /\ launch'[l].pipe = launch[l].pipe /\ launch'[l].early = waits(l)
      OBVIOUS
  <2> DEFINE w == waits(l)
  <2> HIDE DEF w
  <2>1. launch'[l] = [step |-> launch[l].step, config |-> launch[l].config, pipe |-> launch[l].pipe,
                      early |-> w]
      BY <1>3 DEF w
  <2>2. /\ launch'[l].step = launch[l].step /\ launch'[l].config = launch[l].config
        /\ launch'[l].pipe = launch[l].pipe /\ launch'[l].early = w
      BY <2>1
  <2>. QED BY <2>2 DEF w
<1>5. LaunchTypes'
  <2>1. \A l \in Launches : launch'[l] = [step |-> launch'[l].step, config |-> launch'[l].config,
                                          pipe |-> launch'[l].pipe, early |-> launch'[l].early]
      BY <1>3, <1>4
  <2>2. launch' = [l \in Launches |-> launch'[l]]
      BY <1>2
  <2>. QED BY <2>1, <2>2 DEF LaunchTypes
<1>6. AllResolved'
    BY <1>1, <1>2, <1>4 DEF AllResolved
<1>7. PipeKnown'
  <2>1. sessions = {l \in Launches : launch[l].step = "running"}
      BY <1>1, <1>2 DEF PipeKnown
  <2>2. \A l \in Launches : launch'[l].step \in LateSteps => launch'[l].pipe \/ l \in told' \/ launch'[l].early
      BY <1>2, <1>4, <2>1 DEF LateSteps, waits
  <2>. QED BY <1>2, <2>2 DEF PipeKnown
<1>8. ListenersFit'
    BY <1>1, <1>2, <1>4 DEF ListenersFit
<1>. QED BY <1>1, <1>2, <1>5, <1>6, <1>7, <1>8 DEF SessionsInv

\* Every step keeps the invariant.
LEMMA NextSessionsInv == SessionsInv /\ Sessions!Next => SessionsInv'
BY BeginKeeps, AnswerKeeps, SubstituteKeeps, ResolveKeeps, StartedKeeps, EndsKeep, DevKitKeeps
   DEF Sessions!Next

\* A session that runs knows the pipe of C# Dev Kit or is tracked until there is one; it has the
\* process, the variables and in a browser the assets its configuration asks for; companions are
\* started at most as often as promised, by whichever session of the name comes first
\* (provisionalDebugSessionTracker.ts:57-73, dotnetConfigurationProvider.ts:163-175).
THEOREM SessionsCorrect == WorkspaceSpec => []SessionsFit
<1>1. WorkspaceInit => SessionsInv
    BY InitSessionsInv DEF WorkspaceInit
<1>2. SessionsInv /\ UNCHANGED sessionVars => SessionsInv'
  <2> SUFFICES ASSUME SessionsInv, UNCHANGED sessionVars PROVE SessionsInv'
      OBVIOUS
  <2>1. UNCHANGED <<launch, listeners, resolutions, companions, tracking, sessions, pipe, told, environment>>
      BY DEF sessionVars
  <2>. QED BY <2>1 DEF SessionsInv, LaunchTypes, AllResolved, PipeKnown, ListenersFit
<1>3. [WorkspaceNext]_workspaceVars => Sessions!Next \/ UNCHANGED sessionVars
    BY DEF WorkspaceNext, workspaceVars
<1>4. SessionsInv => SessionsFit
  <2> SUFFICES ASSUME SessionsInv PROVE SessionsFit
      OBVIOUS
  <2>1. LaunchTypes /\ AllResolved /\ PipeKnown /\ ListenersFit
      BY DEF SessionsInv
  <2>2. Sessions!SessionsKnowPipe
      BY <2>1 DEF Sessions!SessionsKnowPipe, Sessions!Step, PipeKnown, LateSteps
  <2>3. Sessions!TrackedUntilDevKit
      BY <2>1 DEF Sessions!TrackedUntilDevKit, Sessions!Step, PipeKnown
  <2>4. Sessions!CompanionsPaired
    <3>2. companions + Cardinality(listeners) = resolutions
        BY <2>1 DEF ListenersFit
    <3>3. \A l \in listeners : launch[l].step \notin {"idle", "running", "ended"}
        BY <2>1 DEF ListenersFit
    <3>. QED BY <3>2, <3>3 DEF Sessions!CompanionsPaired, Sessions!Step, Sessions!Cardinality, Cardinality
  <2>5. Sessions!SessionsAreResolved
    <3> SUFFICES ASSUME NEW l \in Launches, launch[l].step = "running"
                 PROVE  LET c == launch[l].config IN
                        /\ c.request = "attach" => c.process
                        /\ c.request = "launch" => c.envFile = ""
                        /\ c.type # "dotnet"
                        /\ \A k \in DOMAIN c.launchEnv : c.env[k] = c.launchEnv[k]
                        /\ Sessions!RunsInBrowser(c) =>
                               \/ c.assetsPath = "given"
                               \/ c.assetsPath = "found" /\ Sessions!AssetsPathAndProgram
        BY DEF Sessions!SessionsAreResolved, Sessions!Step, Sessions!Config
    <3>1. ResolvedSoFar("running", launch[l].config, environment)
        BY <2>1 DEF AllResolved
    <3>2. HasAssets(environment) => Sessions!AssetsPathAndProgram
        BY DEF HasAssets, Sessions!AssetsPathAndProgram, Sessions!IsDotNet9OrNewer,
               Sessions!WorkspaceDebugInformation, Sessions!WebAssembly
    <3>. QED BY <3>1, <3>2 DEF ResolvedSoFar, LateSteps, EarlySteps, IsConfiguration
  <2>. QED BY <2>2, <2>3, <2>4, <2>5 DEF SessionsFit, Sessions!SessionsFit
<1>. QED BY <1>1, <1>2, <1>3, <1>4, NextSessionsInv, PTL DEF WorkspaceSpec

-----------------------------------------------------------------------------
(* The documents of OmniSharp and Roslyn that are no files.                  *)

\* A request under way.
DocumentRequests ==
    [call : Nat \ {0}, name : Names,
     step : {"create", "update", "delete", "content", "metadata", "open"},
     version : 0 .. Documents!Deleted]

\* Types: only the calls of virtual documents have no bound.
DocumentTypes ==
    /\ documentText \in [Names -> 0 .. Documents!Deleted]
    /\ source \in [Names -> 0 .. Documents!Deleted]
    /\ known \in [Names -> 0 .. MaxCalls]
    /\ responses \in [Documents!Infos -> 0 .. Documents!Deleted]
    /\ given \in [Documents!Infos -> 0 .. Documents!Deleted]
    /\ calls \in Nat /\ (documentKind # "virtual" => calls <= MaxCalls)
    /\ requests \subseteq DocumentRequests
    /\ \A r \in requests : r.call <= calls

\* Of the requests of a virtual document: a creation is the only one, behind deletions; else the
\* last carries its text, or deletes a closed one, and with none left the server knows it.
LastRequest(n) ==
    /\ \A r \in Documents!Asks(n) : r.step = "create" =>
        /\ documentText[n] # Documents!Closed
        /\ \A s \in Documents!Asks(n) : /\ s.step = "delete" => s.call < r.call
                                        /\ s.step = "create" => s = r
    /\ (\A r \in Documents!Asks(n) : r.step # "create") =>
        \A r \in Documents!Asks(n) :
            /\ r.step = "delete" => /\ documentText[n] = Documents!Closed
                                    /\ \A s \in Documents!Asks(n) : s.call <= r.call
            /\ (\A s \in Documents!Asks(n) : s.call <= r.call) => r.version = documentText[n]
    /\ Documents!Asks(n) = {} => source[n] = documentText[n]

\* Only a document whose creation another request overtook, or whose request failed, is behind.
VirtualInv ==
    /\ \A r \in requests : r.step \in {"create", "update", "delete"}
    /\ \A r \in requests, s \in requests : r.call = s.call => r = s
    /\ \A n \in Names \ (lagging \cup crossed) : LastRequest(n)

\* A file info is of one document, and so are the requests made for it.
InfosOfOne ==
    /\ \A m \in Names, n \in Names : known[m] = known[n] /\ known[n] # 0 => m = n
    /\ \A n \in Names : known[n] <= calls
    /\ \A r \in requests : \A n \in Names : r.call = known[n] => r.name = n

\* Content is asked for once, for a document that no editor shows.
ContentAlone ==
    \A r \in requests : r.step = "content" =>
        documentText[r.name] = Documents!Closed /\ Documents!Asks(r.name) = {r}

\* A document that an editor shows is as the response kept for its info, and updates alone are
\* under way for it; with none under way it is what the generator gives.
ShownIsGiven ==
    \A n \in Names \ renavigated : documentText[n] # Documents!Closed =>
        /\ known[n] # 0
        /\ \A r \in Documents!Asks(n) : r.call = known[n] /\ r.step = "update"
        /\ responses[known[n]] # Documents!Closed
        /\ documentText[n] = given[known[n]]
        /\ n \notin lagging /\ Documents!Asks(n) = {} => documentText[n] = source[n]

\* A response is kept of an open document only.
KeptOfOpen ==
    renavigated = {} => \A i \in Documents!Infos : responses[i] # Documents!Closed =>
        \E n \in Names : known[n] = i /\ documentText[n] # Documents!Closed

\* What holds of generated documents, and of documents of metadata.
GeneratedInv ==
    /\ \A r \in requests : r.step \in {"content", "update"}
    /\ \A n \in Names : source[n] # Documents!Closed
    /\ InfosOfOne /\ ContentAlone /\ ShownIsGiven /\ KeptOfOpen

MetadataInv ==
    /\ \A r \in requests : r.step \in {"metadata", "open"}
    /\ \A n \in Names \ crossed :
        /\ documentText[n] # Documents!Deleted
        /\ \A r \in Documents!Asks(n) : r.step = "open" => known[n] # 0

\* One kind of documents is at work.
DocumentsInv ==
    /\ documentKind \in {"virtual", "generated", "metadata"}
    /\ DocumentTypes
    /\ documentKind = "virtual" => VirtualInv
    /\ documentKind = "generated" => GeneratedInv
    /\ documentKind = "metadata" => MetadataInv

\* The initial state has no requests.
LEMMA InitDocumentsInv == Documents!Init => DocumentsInv
<1> SUFFICES ASSUME Documents!Init PROVE DocumentsInv
    OBVIOUS
<1>1. /\ requests = {} /\ lagging = {} /\ crossed = {} /\ renavigated = {} /\ calls = 0
      /\ documentKind \in {"virtual", "generated", "metadata"}
      /\ documentText = [n \in Names |-> Documents!Closed]
      /\ known = [n \in Names |-> 0]
      /\ source = [n \in Names |-> IF documentKind = "virtual" THEN Documents!Closed ELSE 0]
      /\ responses = [i \in Documents!Infos |-> Documents!Closed] /\ given = responses
    BY DEF Documents!Init
<1>2. /\ Documents!Closed \in 0 .. Documents!Deleted /\ 0 \in 0 .. Documents!Deleted
      /\ Documents!Closed # 0 /\ Documents!Closed # Documents!Deleted
    BY BoundsAssumption DEF Documents!Closed, Documents!Deleted
<1>3. \A n \in Names : Documents!Asks(n) = {}
    BY <1>1 DEF Documents!Asks
<1>4. DocumentTypes
    BY <1>1, <1>2, BoundsAssumption DEF DocumentTypes
<1>5. documentKind = "virtual" => VirtualInv
    BY <1>1, <1>3 DEF VirtualInv, LastRequest
<1>6. documentKind = "generated" => GeneratedInv
    BY <1>1, <1>2, <1>3 DEF GeneratedInv, InfosOfOne, ContentAlone, ShownIsGiven, KeptOfOpen
<1>7. documentKind = "metadata" => MetadataInv
    BY <1>1, <1>2, <1>3 DEF MetadataInv
<1>. QED BY <1>1, <1>4, <1>5, <1>6, <1>7 DEF DocumentsInv

\* A request that is made, for a document that is one.
LEMMA RequestType ==
    ASSUME NEW call \in Nat \ {0}, NEW n \in Names,
           NEW step \in {"create", "update", "delete", "content", "metadata", "open"},
           NEW version \in 0 .. Documents!Deleted
    PROVE  /\ Documents!Request(call, n, step, version) \in DocumentRequests
           /\ Documents!Request(call, n, step, version).call = call
           /\ Documents!Request(call, n, step, version).name = n
           /\ Documents!Request(call, n, step, version).step = step
           /\ Documents!Request(call, n, step, version).version = version
    BY DEF Documents!Request, DocumentRequests

-----------------------------------------------------------------------------
(* Virtual documents.                                                        *)

\* The requests of another document are as they were.
LEMMA OthersLast ==
    ASSUME NEW n \in Names, LastRequest(n),
           \A r \in requests : r.name = n => r \in requests',
           \A r \in requests' : r.name = n => r \in requests,
           documentText'[n] = documentText[n], source'[n] = source[n]
    PROVE  LastRequest(n)'
<1>1. Documents!Asks(n)' = Documents!Asks(n)
    BY DEF Documents!Asks
<1>. QED BY <1>1 DEF LastRequest, Documents!Closed

\* The calls of requests are those given out.
LEMMA CallsDiffer ==
    ASSUME DocumentTypes, NEW r, r.call = calls + 1,
           \A s \in requests, t \in requests : s.call = t.call => s = t,
           requests' \subseteq requests \cup {r}
    PROVE  \A s \in requests', t \in requests' : s.call = t.call => s = t
    BY DEF DocumentTypes, DocumentRequests

\* A document opens, changes or closes.
LEMMA VirtualEditsKeep ==
    ASSUME DocumentTypes, VirtualInv, documentKind = "virtual", documentKind' = documentKind,
           NEW n \in Names,
           Documents!VirtualOpens(n) \/ Documents!VirtualChanges(n) \/ Documents!VirtualCloses(n)
    PROVE  DocumentTypes' /\ VirtualInv'
<1>1. PICK step \in {"create", "update", "delete"}, version \in 0 .. Documents!Deleted :
        /\ calls' = calls + 1
        /\ requests' = requests \cup {Documents!Request(calls + 1, n, step, version)}
        /\ UNCHANGED <<source, known, responses, given, renavigated, lagging>>
        /\ step = "create" => /\ documentText[n] = Documents!Closed
                              /\ documentText' = [documentText EXCEPT ![n] = 0]
                              /\ UNCHANGED crossed
        /\ step = "update" => /\ documentText[n] # Documents!Closed
                              /\ documentText' = [documentText EXCEPT ![n] = version]
                              /\ version \in 0 .. MaxVersions
                              /\ UNCHANGED crossed
        /\ step = "delete" => /\ documentText[n] # Documents!Closed
                              /\ documentText' = [documentText EXCEPT ![n] = Documents!Closed]
                              /\ version = Documents!Closed
                              /\ crossed' = IF \E r \in Documents!Asks(n) : r.step = "create"
                                            THEN crossed \cup {n} ELSE crossed
  <2>1. /\ Documents!Closed \in 0 .. Documents!Deleted /\ 0 \in 0 .. Documents!Deleted
        /\ MaxVersions \in Nat /\ Documents!Closed = MaxVersions + 1
        /\ Documents!Deleted = MaxVersions + 2
        /\ documentText[n] \in 0 .. Documents!Deleted
        /\ documentText \in [Names -> 0 .. Documents!Deleted]
      BY BoundsAssumption DEF Documents!Closed, Documents!Deleted, DocumentTypes
  <2>2. CASE Documents!VirtualOpens(n)
      BY <2>1, <2>2 DEF Documents!VirtualOpens
  <2>3. CASE Documents!VirtualChanges(n)
    <3>1. documentText[n] + 1 \in 0 .. Documents!Deleted /\ documentText[n] + 1 \in 0 .. MaxVersions
          /\ documentText[n] # Documents!Closed
        BY <2>1, <2>3 DEF Documents!VirtualChanges
    <3>2. documentText' = [documentText EXCEPT ![n] = documentText[n] + 1]
        BY <2>1, <2>3 DEF Documents!VirtualChanges
    <3>. QED BY <2>1, <2>3, <3>1, <3>2 DEF Documents!VirtualChanges
  <2>4. CASE Documents!VirtualCloses(n)
      BY <2>1, <2>4 DEF Documents!VirtualCloses
  <2>. QED BY <2>2, <2>3, <2>4
<1> DEFINE new == Documents!Request(calls + 1, n, step, version)
<1>2. /\ new \in DocumentRequests /\ new.call = calls + 1 /\ new.name = n /\ new.step = step
      /\ new.version = version
  <2>1. calls + 1 \in Nat \ {0}
      BY DEF DocumentTypes
  <2>. QED BY <2>1, RequestType
<1>3. requests' = requests \cup {new}
    BY <1>1
<1>. HIDE DEF new
<1>4. /\ MaxVersions \in Nat /\ Documents!Closed = MaxVersions + 1 /\ Documents!Deleted = MaxVersions + 2
      /\ Documents!Closed' = Documents!Closed /\ Documents!Deleted' = Documents!Deleted
      /\ Documents!Infos' = Documents!Infos
    BY BoundsAssumption DEF Documents!Closed, Documents!Deleted, Documents!Infos
<1>5. documentText' \in [Names -> 0 .. Documents!Deleted]
    BY <1>1, <1>4 DEF DocumentTypes
<1>6. DocumentTypes'
    BY <1>1, <1>2, <1>3, <1>4, <1>5 DEF DocumentTypes, DocumentRequests
<1>7. \A r \in requests' : r.step \in {"create", "update", "delete"}
    BY <1>2, <1>3 DEF VirtualInv
<1>8. \A r \in requests', s \in requests' : r.call = s.call => r = s
    BY <1>2, <1>3, CallsDiffer DEF VirtualInv
<1>9. ASSUME NEW m \in Names \ (lagging' \cup crossed') PROVE LastRequest(m)'
  <2>1. m \in Names \ (lagging \cup crossed)
      BY <1>1, <1>9
  <2>2. LastRequest(m)
      BY <2>1 DEF VirtualInv
  <2>3. CASE m # n
    <3>1. documentText'[m] = documentText[m] /\ source'[m] = source[m]
        BY <1>1, <2>3 DEF DocumentTypes
    <3>. QED BY <1>2, <1>3, <2>2, <2>3, <3>1, OthersLast
  <2>4. CASE m = n
    <3>1. /\ Documents!Asks(n)' = Documents!Asks(n) \cup {new}
          /\ \A r \in Documents!Asks(n) : r.call < new.call /\ r \in requests
        BY <1>2, <1>3 DEF Documents!Asks, DocumentTypes, DocumentRequests
    <3>2. \A r \in Documents!Asks(n) : r.step \in {"create", "update", "delete"}
        BY <3>1 DEF VirtualInv
    <3>3. LastRequest(n)
        BY <2>2, <2>4
    <3>4. new.call \in Nat /\ \A r \in Documents!Asks(n) : r.call \in Nat
        BY <3>1, <1>2 DEF DocumentTypes, DocumentRequests
    <3>5. CASE step = "create"
      <4>1. documentText'[n] = 0 /\ 0 # Documents!Closed
          BY <1>1, <1>4, <3>5 DEF DocumentTypes
      <4>2. \A r \in Documents!Asks(n) : r.step # "create"
          BY <3>3, <1>1, <3>5 DEF LastRequest
      <4>. QED BY <1>2, <1>4, <2>4, <3>1, <3>5, <4>1, <4>2 DEF LastRequest
    <3>6. CASE step = "update"
      <4>1. documentText'[n] = version /\ version # Documents!Closed
          BY <1>1, <1>4, <3>6 DEF DocumentTypes
      <4>2. \A r \in Documents!Asks(n) : r.step # "delete" \/ \E s \in Documents!Asks(n) : s.step = "create"
          BY <3>3, <1>1, <3>6 DEF LastRequest
      <4>3. ASSUME NEW r \in Documents!Asks(n)', r.step = "create"
            PROVE  /\ documentText'[n] # Documents!Closed
                   /\ \A s \in Documents!Asks(n)' : (s.step = "delete" => s.call < r.call)
                                                 /\ (s.step = "create" => s = r)
          BY <1>2, <3>1, <3>3, <3>6, <4>1, <4>3 DEF LastRequest
      <4>4. ASSUME \A r \in Documents!Asks(n)' : r.step # "create", NEW r \in Documents!Asks(n)'
            PROVE  /\ r.step # "delete"
                   /\ (\A s \in Documents!Asks(n)' : s.call <= r.call) => r.version = documentText'[n]
        <5>1. r.step # "delete"
            BY <1>2, <3>1, <3>6, <4>2, <4>4
        <5>2. (\A s \in Documents!Asks(n)' : s.call <= r.call) => r = new
            BY <3>1, <3>4
        <5>. QED BY <1>2, <4>1, <5>1, <5>2
      <4>. QED BY <1>4, <2>4, <3>1, <4>3, <4>4 DEF LastRequest
    <3>7. CASE step = "delete"
      <4>1. documentText'[n] = Documents!Closed /\ version = Documents!Closed
          BY <1>1, <1>4, <3>7 DEF DocumentTypes
      <4>2. \A r \in Documents!Asks(n) : r.step # "create"
          BY <1>1, <1>9, <2>4, <3>7
      <4>3. \A r \in Documents!Asks(n) : r.step # "delete"
          BY <3>3, <4>2, <1>1, <3>7 DEF LastRequest
      <4>4. ASSUME NEW r \in Documents!Asks(n)'
            PROVE  /\ r.step # "create"
                   /\ r.step = "delete" => \A s \in Documents!Asks(n)' : s.call <= r.call
                   /\ (\A s \in Documents!Asks(n)' : s.call <= r.call) => r.version = documentText'[n]
        <5>1. (\A s \in Documents!Asks(n)' : s.call <= r.call) => r = new
            BY <3>1, <3>4
        <5>2. r.step = "delete" => r = new
            BY <3>1, <4>3
        <5>3. \A s \in Documents!Asks(n)' : s.call <= new.call
            BY <3>1, <3>4
        <5>4. r.step # "create"
            BY <1>2, <3>1, <3>7, <4>2
        <5>. QED BY <1>2, <4>1, <5>1, <5>2, <5>3, <5>4
      <4>. QED BY <1>4, <2>4, <3>1, <4>1, <4>4 DEF LastRequest
    <3>. QED BY <3>5, <3>6, <3>7
  <2>. QED BY <2>3, <2>4
<1>. QED BY <1>6, <1>7, <1>8, <1>9 DEF VirtualInv

\* The first of the requests is answered, or fails.
LEMMA VirtualAnswersKeep ==
    ASSUME DocumentTypes, VirtualInv, documentKind = "virtual", documentKind' = documentKind,
           NEW r \in requests, Documents!VirtualAnswered(r) \/ Documents!VirtualFails(r)
    PROVE  DocumentTypes' /\ VirtualInv'
<1>1. /\ r \in DocumentRequests /\ r.name \in Names /\ r.call \in Nat /\ r.version \in 0 .. Documents!Deleted
      /\ r.step \in {"create", "update", "delete"}
    BY DEF DocumentTypes, DocumentRequests, VirtualInv
<1>2. /\ MaxVersions \in Nat /\ Documents!Closed = MaxVersions + 1 /\ Documents!Deleted = MaxVersions + 2
      /\ Documents!Closed' = Documents!Closed /\ Documents!Deleted' = Documents!Deleted
      /\ Documents!Infos' = Documents!Infos
    BY BoundsAssumption DEF Documents!Closed, Documents!Deleted, Documents!Infos
<1>3. \A s \in requests : s.call < r.call => s.step # "update" /\ r.step = "update"
    BY DEF Documents!VirtualAnswered, Documents!VirtualFails, Documents!InOrder
<1>4. \A s \in requests : s.call \in Nat /\ s.step \in {"create", "update", "delete"}
    BY DEF DocumentTypes, DocumentRequests, VirtualInv
<1>5. CASE Documents!VirtualFails(r)
  <2>1. /\ requests' = requests \ {r} /\ lagging' = lagging \cup {r.name}
        /\ UNCHANGED <<documentText, source, calls, known, responses, given, renavigated, crossed>>
      BY <1>5 DEF Documents!VirtualFails
  <2>2. DocumentTypes'
      BY <1>2, <2>1 DEF DocumentTypes, DocumentRequests
  <2>3. ASSUME NEW m \in Names \ (lagging' \cup crossed') PROVE LastRequest(m)'
    <3>1. m \in Names \ (lagging \cup crossed) /\ m # r.name
        BY <2>1, <2>3
    <3>2. LastRequest(m)
        BY <3>1 DEF VirtualInv
    <3>. QED BY <2>1, <3>1, <3>2, OthersLast
  <2>. QED BY <2>1, <2>2, <2>3 DEF VirtualInv
<1>6. CASE Documents!VirtualAnswered(r) /\ r.step = "create"
  <2> DEFINE version == IF documentText[r.name] = Documents!Closed THEN 0 ELSE documentText[r.name]
             new == Documents!Request(calls + 1, r.name, "update", version)
  <2>1. /\ source' = [source EXCEPT ![r.name] = 0] /\ calls' = calls + 1
        /\ requests' = (requests \ {r}) \cup {new}
        /\ UNCHANGED <<documentText, known, responses, given, renavigated, crossed, lagging>>
      BY <1>6 DEF Documents!VirtualAnswered
  <2>2. version \in 0 .. Documents!Deleted /\ calls + 1 \in Nat \ {0} /\ calls \in Nat
      BY <1>1, <1>2 DEF DocumentTypes
  <2>3. /\ new \in DocumentRequests /\ new.call = calls + 1 /\ new.name = r.name
        /\ new.step = "update" /\ new.version = version
      BY <1>1, <2>2, RequestType
  <2>. HIDE DEF new
  <2>4. DocumentTypes'
    <3>1. source' \in [Names -> 0 .. Documents!Deleted]
      <4>1. 0 \in 0 .. Documents!Deleted
          BY <1>2
      <4>. QED BY <2>1, <4>1 DEF DocumentTypes
    <3>2. requests' \subseteq DocumentRequests /\ \A s \in requests' : s.call <= calls'
      <4>1. \A s \in requests : s \in DocumentRequests /\ s.call <= calls
          BY DEF DocumentTypes
      <4>2. ASSUME NEW s \in requests PROVE s.call <= calls'
          BY <1>4, <2>1, <2>2, <4>1
      <4>3. new.call <= calls'
          BY <2>1, <2>2, <2>3
      <4>. QED BY <2>1, <2>3, <4>1, <4>2, <4>3
    <3>. QED BY <1>2, <2>1, <2>2, <3>1, <3>2 DEF DocumentTypes, DocumentRequests
  <2>5. \A s \in requests', t \in requests' : s.call = t.call => s = t
      BY <2>1, <2>3, CallsDiffer DEF VirtualInv
  <2>6. ASSUME NEW m \in Names \ (lagging' \cup crossed') PROVE LastRequest(m)'
    <3>1. LastRequest(m)
        BY <2>1, <2>6 DEF VirtualInv
    <3>2. CASE m # r.name
      <4>1. source'[m] = source[m]
          BY <2>1, <3>2 DEF DocumentTypes
      <4>. QED BY <2>1, <2>3, <3>1, <3>2, <4>1, OthersLast
    <3>3. CASE m = r.name
      <4>1. r \in Documents!Asks(m) /\ Documents!Asks(m)' = (Documents!Asks(m) \ {r}) \cup {new}
          BY <2>1, <2>3, <3>3 DEF Documents!Asks
      <4>2. \A s \in Documents!Asks(m) : s \in requests /\ s.call < new.call
          BY <1>4, <2>2, <2>3 DEF Documents!Asks, DocumentTypes
      <4>3. documentText[m] # Documents!Closed /\ new.version = documentText[m]
          BY <1>6, <2>3, <3>1, <3>3, <4>1 DEF LastRequest
      <4>4. \A s \in Documents!Asks(m) : s # r => s.step = "update"
          BY <1>3, <1>4, <1>6, <3>1, <4>1, <4>2 DEF LastRequest
      <4>5. \A s \in Documents!Asks(m)' : s.step = "update"
          BY <2>3, <4>1, <4>4
      <4>6. ASSUME NEW s \in Documents!Asks(m)', \A t \in Documents!Asks(m)' : t.call <= s.call
            PROVE  s = new
          BY <1>4, <2>2, <2>3, <4>1, <4>2, <4>6
      <4>. QED BY <1>2, <2>1, <4>1, <4>3, <4>5, <4>6 DEF LastRequest
    <3>. QED BY <3>2, <3>3
  <2>. QED BY <1>4, <2>1, <2>3, <2>4, <2>5, <2>6 DEF VirtualInv
<1>7. CASE Documents!VirtualAnswered(r) /\ r.step # "create"
  <2>1. /\ source' = [source EXCEPT ![r.name] = r.version]
        /\ requests' = requests \ {r}
        /\ UNCHANGED <<calls, documentText, known, responses, given, renavigated, crossed, lagging>>
      BY <1>7 DEF Documents!VirtualAnswered
  <2>2. DocumentTypes'
      BY <1>1, <1>2, <2>1 DEF DocumentTypes, DocumentRequests
  <2>3. ASSUME NEW m \in Names \ (lagging' \cup crossed') PROVE LastRequest(m)'
    <3>1. LastRequest(m)
        BY <2>1, <2>3 DEF VirtualInv
    <3>2. CASE m # r.name
      <4>1. source'[m] = source[m]
          BY <2>1, <3>2 DEF DocumentTypes
      <4>. QED BY <2>1, <3>1, <3>2, <4>1, OthersLast
    <3>3. CASE m = r.name
      <4>1. r \in Documents!Asks(m) /\ Documents!Asks(m)' = Documents!Asks(m) \ {r}
          BY <2>1, <3>3 DEF Documents!Asks
      <4>2. \A s \in Documents!Asks(m) : s \in requests
          BY DEF Documents!Asks
      <4>3. CASE \E s \in Documents!Asks(m) : s.step = "create"
        <5>1. \E s \in Documents!Asks(m)' : s.step = "create"
            BY <1>7, <4>1, <4>3
        <5>. QED BY <1>2, <2>1, <3>1, <4>1, <5>1 DEF LastRequest
      <4>4. CASE \A s \in Documents!Asks(m) : s.step # "create"
        <5>1. \A s \in Documents!Asks(m) : r.call <= s.call
          <6>1. SUFFICES ASSUME NEW s \in Documents!Asks(m), s.call < r.call PROVE FALSE
              BY <1>1, <1>4, <4>2
          <6>2. s.step = "delete" /\ r.step = "update"
              BY <1>3, <1>4, <4>2, <4>4, <6>1
          <6>3. r.call <= s.call
              BY <3>1, <4>1, <4>4, <6>2 DEF LastRequest
          <6>. QED BY <1>1, <1>4, <4>2, <6>1, <6>3
        <5>2. ASSUME Documents!Asks(m)' = {} PROVE source'[m] = documentText'[m]
          <6>1. \A s \in Documents!Asks(m) : s.call <= r.call
              BY <1>1, <4>1, <5>2
          <6>2. r.version = documentText[m]
              BY <3>1, <4>1, <4>4, <6>1 DEF LastRequest
          <6>. QED BY <2>1, <3>3, <6>2 DEF DocumentTypes
        <5>3. ASSUME NEW s \in Documents!Asks(m)', \A t \in Documents!Asks(m)' : t.call <= s.call
              PROVE  s.version = documentText'[m]
          <6>1. \A t \in Documents!Asks(m) : t.call <= s.call
              BY <4>1, <5>1, <5>3
          <6>. QED BY <2>1, <3>1, <4>1, <4>4, <5>3, <6>1 DEF LastRequest
        <5>4. ASSUME NEW s \in Documents!Asks(m)'
              PROVE  /\ s.step # "create"
                     /\ s.step = "delete" => /\ documentText'[m] = Documents!Closed
                                             /\ \A t \in Documents!Asks(m)' : t.call <= s.call
            BY <2>1, <3>1, <4>1, <4>4, <5>4 DEF LastRequest
        <5>. QED BY <1>2, <5>2, <5>3, <5>4 DEF LastRequest
      <4>. QED BY <4>3, <4>4
    <3>. QED BY <3>2, <3>3
  <2>. QED BY <1>4, <2>1, <2>2, <2>3 DEF VirtualInv
<1>. QED BY <1>5, <1>6, <1>7

-----------------------------------------------------------------------------
(* Generated documents.                                                      *)

\* Closed and Deleted are no versions.
LEMMA NoVersions ==
    /\ MaxVersions \in Nat /\ MaxCalls \in Nat
    /\ Documents!Closed = MaxVersions + 1 /\ Documents!Deleted = MaxVersions + 2
    /\ Documents!Closed' = Documents!Closed /\ Documents!Deleted' = Documents!Deleted
    /\ Documents!Infos' = Documents!Infos /\ Documents!Infos = 1 .. MaxCalls
    BY BoundsAssumption DEF Documents!Closed, Documents!Deleted, Documents!Infos

\* A definition is gone to.
LEMMA GeneratedDefinitionKeeps ==
    ASSUME DocumentTypes, GeneratedInv, documentKind = "generated", documentKind' = documentKind,
           NEW n \in Names, Documents!GeneratedDefinition(n)
    PROVE  DocumentTypes' /\ GeneratedInv'
<1> DEFINE new == Documents!Request(calls + 1, n, "content", 0)
<1>1. /\ calls < MaxCalls /\ calls' = calls + 1 /\ known' = [known EXCEPT ![n] = calls + 1]
      /\ \/ /\ documentText[n] = Documents!Closed /\ Documents!Asks(n) = {}
            /\ requests' = requests \cup {new} /\ renavigated' = renavigated
         \/ /\ ~(documentText[n] = Documents!Closed /\ Documents!Asks(n) = {})
            /\ renavigated' = renavigated \cup {n} /\ requests' = requests
      /\ UNCHANGED <<documentText, source, responses, given, crossed, lagging>>
    BY DEF Documents!GeneratedDefinition
<1>2. calls \in Nat /\ calls + 1 \in Nat \ {0} /\ 0 \in 0 .. Documents!Deleted /\ calls + 1 \in 0 .. MaxCalls
    BY <1>1, NoVersions DEF DocumentTypes
<1>3. /\ new \in DocumentRequests /\ new.call = calls + 1 /\ new.name = n
      /\ new.step = "content"
    BY <1>2, RequestType
<1>. HIDE DEF new
<1>4. /\ requests \subseteq requests' /\ requests' \subseteq requests \cup {new}
      /\ renavigated \subseteq renavigated'
    BY <1>1
<1>5. \A s \in requests : s \in DocumentRequests /\ s.call \in Nat /\ s.call <= calls
    BY DEF DocumentTypes, DocumentRequests
<1>6. DocumentTypes'
  <2>1. requests' \subseteq DocumentRequests
      BY <1>3, <1>4, <1>5
  <2>2. \A s \in requests' : s.call <= calls'
      BY <1>1, <1>2, <1>3, <1>4, <1>5
  <2>3. known' \in [Names -> 0 .. MaxCalls]
      BY <1>1, <1>2 DEF DocumentTypes
  <2>4. calls' \in Nat /\ calls' <= MaxCalls
      BY <1>1, <1>2, NoVersions
  <2>. QED BY <1>1, <2>1, <2>2, <2>3, <2>4, NoVersions DEF DocumentTypes, DocumentRequests
<1>7. InfosOfOne'
  <2>1. /\ \A m \in Names : known[m] \in Nat /\ known[m] <= calls
        /\ \A m \in Names : known'[m] = IF m = n THEN calls + 1 ELSE known[m]
      BY <1>1 DEF InfosOfOne, GeneratedInv, DocumentTypes
  <2>2. \A m1 \in Names, m2 \in Names : known'[m1] = known'[m2] /\ known'[m2] # 0 => m1 = m2
      BY <1>2, <2>1 DEF InfosOfOne, GeneratedInv
  <2>3. \A m \in Names : known'[m] <= calls'
      BY <1>1, <1>2, <2>1
  <2>4. ASSUME NEW s \in requests', NEW m \in Names, s.call = known'[m] PROVE s.name = m
    <3>1. CASE s = new
        BY <1>2, <1>3, <2>1, <2>4, <3>1
    <3>2. CASE s \in requests
        BY <1>2, <1>5, <2>1, <2>4, <3>2 DEF InfosOfOne, GeneratedInv
    <3>. QED BY <1>4, <3>1, <3>2
  <2>. QED BY <2>2, <2>3, <2>4 DEF InfosOfOne
<1>8. ContentAlone'
  <2>1. ASSUME NEW s \in requests', s.step = "content"
        PROVE documentText'[s.name] = Documents!Closed /\ Documents!Asks(s.name)' = {s}
    <3>1. CASE requests' = requests
        BY <1>1, <2>1, <3>1 DEF ContentAlone, GeneratedInv, Documents!Asks
    <3>2. CASE /\ documentText[n] = Documents!Closed /\ Documents!Asks(n) = {}
               /\ requests' = requests \cup {new}
      <4>1. CASE s = new
          BY <1>1, <1>3, <3>2, <4>1 DEF Documents!Asks
      <4>2. CASE s \in requests
        <5>1. s.name # n
            BY <3>2, <4>2 DEF Documents!Asks
        <5>. QED BY <1>1, <1>3, <2>1, <3>2, <4>2, <5>1 DEF ContentAlone, GeneratedInv, Documents!Asks
      <4>. QED BY <3>2, <4>1, <4>2
    <3>. QED BY <1>1, <3>1, <3>2
  <2>. QED BY <2>1, NoVersions DEF ContentAlone
<1>9. ShownIsGiven'
  <2>1. ASSUME NEW m \in Names \ renavigated', documentText'[m] # Documents!Closed
        PROVE  /\ m # n /\ m \in Names \ renavigated /\ documentText[m] # Documents!Closed
               /\ known'[m] = known[m] /\ Documents!Asks(m)' = Documents!Asks(m)
    <3>1. m # n
        BY <1>1, <2>1
    <3>. QED BY <1>1, <1>3, <2>1, <3>1 DEF Documents!Asks, DocumentTypes
  <2>. QED BY <1>1, <2>1, NoVersions DEF ShownIsGiven, GeneratedInv
<1>10. KeptOfOpen'
  <2>1. ASSUME renavigated' = {}, NEW i \in Documents!Infos, responses'[i] # Documents!Closed
        PROVE  \E m \in Names : known'[m] = i /\ documentText'[m] # Documents!Closed
    <3>1. PICK m \in Names : known[m] = i /\ documentText[m] # Documents!Closed
        BY <1>1, <2>1 DEF KeptOfOpen, GeneratedInv
    <3>2. m # n
        BY <1>1, <2>1, <3>1
    <3>. QED BY <1>1, <3>1, <3>2 DEF DocumentTypes
  <2>. QED BY <2>1, NoVersions DEF KeptOfOpen
<1>11. \A s \in requests' : s.step \in {"content", "update"}
    BY <1>3, <1>4 DEF GeneratedInv
<1>. QED BY <1>1, <1>6, <1>7, <1>8, <1>9, <1>10, <1>11, NoVersions DEF GeneratedInv

\* Its content is given, once.
LEMMA ContentAnsweredKeeps ==
    ASSUME DocumentTypes, GeneratedInv, documentKind = "generated", documentKind' = documentKind,
           NEW r \in requests, Documents!ContentAnswered(r)
    PROVE  DocumentTypes' /\ GeneratedInv'
<1>1. PICK n \in Names, k \in Documents!Infos, v \in 0 .. Documents!Deleted :
        /\ n = r.name /\ k = r.call /\ v = source[n] /\ v # Documents!Closed
        /\ responses' = [responses EXCEPT ![k] = v] /\ given' = [given EXCEPT ![k] = v]
        /\ documentText' = [documentText EXCEPT ![n] = v]
        /\ requests' = requests \ {r}
        /\ renavigated' = IF known[n] = k THEN renavigated ELSE renavigated \cup {n}
        /\ UNCHANGED <<source, calls, known, crossed, lagging>>
  <2>1. r.name \in Names /\ r.call \in Nat \ {0} /\ r.call <= calls /\ calls <= MaxCalls /\ calls \in Nat
      BY DEF DocumentTypes, DocumentRequests
  <2>2. /\ r.call \in Documents!Infos /\ source[r.name] \in 0 .. Documents!Deleted
        /\ source[r.name] # Documents!Closed
      BY <2>1, NoVersions DEF DocumentTypes, GeneratedInv
  <2>. QED BY <2>1, <2>2 DEF Documents!ContentAnswered
<1>2. /\ documentText[n] = Documents!Closed /\ Documents!Asks(n) = {r} /\ Documents!Asks(n)' = {}
      /\ \A m \in Names : m # n => Documents!Asks(m)' = Documents!Asks(m)
  <2>1. r.step = "content"
      BY DEF Documents!ContentAnswered
  <2>. QED BY <1>1, <2>1 DEF ContentAlone, GeneratedInv, Documents!Asks
<1>3. k # 0 /\ \A m \in Names : known[m] = k => m = n
    BY <1>1, NoVersions DEF InfosOfOne, GeneratedInv
<1>4. DocumentTypes'
    BY <1>1, NoVersions DEF DocumentTypes, DocumentRequests
<1>5. InfosOfOne' /\ \A s \in requests' : s.step \in {"content", "update"}
    BY <1>1 DEF InfosOfOne, GeneratedInv
<1>6. ContentAlone'
  <2>1. ASSUME NEW s \in requests', s.step = "content"
        PROVE documentText'[s.name] = Documents!Closed /\ Documents!Asks(s.name)' = {s}
    <3>1. s \in requests /\ s # r /\ s.name \in Names
        BY <1>1, <2>1 DEF DocumentTypes, DocumentRequests
    <3>2. s.name # n
        BY <1>2, <3>1 DEF Documents!Asks
    <3>. QED BY <1>1, <1>2, <2>1, <3>1, <3>2 DEF ContentAlone, GeneratedInv, DocumentTypes
  <2>. QED BY <2>1, NoVersions DEF ContentAlone
<1>7. ShownIsGiven'
  <2>1. ASSUME NEW m \in Names \ renavigated', documentText'[m] # Documents!Closed
        PROVE  /\ known'[m] # 0
               /\ \A s \in Documents!Asks(m)' : s.call = known'[m] /\ s.step = "update"
               /\ responses'[known'[m]] # Documents!Closed
               /\ documentText'[m] = given'[known'[m]]
               /\ m \notin lagging' /\ Documents!Asks(m)' = {} => documentText'[m] = source'[m]
    <3>1. CASE m = n
      <4>1. known[n] = k
          BY <1>1, <2>1, <3>1
      <4>. QED BY <1>1, <1>2, <1>3, <3>1, <4>1 DEF DocumentTypes
    <3>2. CASE m # n
      <4>1. m \in Names \ renavigated /\ documentText[m] # Documents!Closed /\ known[m] # k
          BY <1>1, <1>3, <2>1, <3>2 DEF DocumentTypes
      <4>. QED BY <1>1, <1>2, <3>2, <4>1 DEF ShownIsGiven, GeneratedInv, DocumentTypes
    <3>. QED BY <3>1, <3>2
  <2>. QED BY <2>1, NoVersions DEF ShownIsGiven
<1>8. KeptOfOpen'
  <2>1. ASSUME renavigated' = {}, NEW i \in Documents!Infos, responses'[i] # Documents!Closed
        PROVE  \E m \in Names : known'[m] = i /\ documentText'[m] # Documents!Closed
    <3>1. CASE i = k
        BY <1>1, <2>1, <3>1 DEF DocumentTypes
    <3>2. CASE i # k
      <4>1. PICK m \in Names : known[m] = i /\ documentText[m] # Documents!Closed
          BY <1>1, <2>1, <3>2 DEF KeptOfOpen, GeneratedInv, DocumentTypes
      <4>. QED BY <1>1, <1>2, <4>1 DEF DocumentTypes
    <3>. QED BY <3>1, <3>2
  <2>. QED BY <2>1, NoVersions DEF KeptOfOpen
<1>. QED BY <1>1, <1>4, <1>5, <1>6, <1>7, <1>8, NoVersions DEF GeneratedInv

\* A document closes.
LEMMA GeneratedClosesKeeps ==
    ASSUME DocumentTypes, GeneratedInv, documentKind = "generated", documentKind' = documentKind,
           NEW n \in Names, Documents!GeneratedCloses(n)
    PROVE  DocumentTypes' /\ GeneratedInv'
<1>1. /\ documentText' = [documentText EXCEPT ![n] = Documents!Closed]
      /\ responses' = IF known[n] = 0 THEN responses ELSE [responses EXCEPT ![known[n]] = Documents!Closed]
      /\ known' = [known EXCEPT ![n] = 0]
      /\ lagging' = lagging \ {n}
      /\ UNCHANGED <<source, calls, requests, given, renavigated, crossed>>
    BY DEF Documents!GeneratedCloses
<1>2. \A m \in Names : Documents!Asks(m)' = Documents!Asks(m)
    BY <1>1 DEF Documents!Asks
<1>3. Documents!Closed \in 0 .. Documents!Deleted /\ 0 \in 0 .. MaxCalls
    BY NoVersions
<1>4. DocumentTypes'
    BY <1>1, <1>3, NoVersions DEF DocumentTypes, DocumentRequests
<1>5. InfosOfOne'
  <2>1. \A s \in requests : s.call # 0
      BY DEF DocumentTypes, DocumentRequests
  <2>2. \A m \in Names : known'[m] = IF m = n THEN 0 ELSE known[m]
      BY <1>1 DEF DocumentTypes
  <2>3. calls \in Nat
      BY DEF DocumentTypes
  <2>. QED BY <1>1, <2>1, <2>2, <2>3 DEF InfosOfOne, GeneratedInv
<1>6. ContentAlone'
  <2>1. \A s \in requests : s.name \in Names
      BY DEF DocumentTypes, DocumentRequests
  <2>. QED BY <1>1, <1>2, <2>1, NoVersions DEF ContentAlone, GeneratedInv, DocumentTypes
<1>7. ShownIsGiven'
  <2>1. ASSUME NEW m \in Names \ renavigated', documentText'[m] # Documents!Closed
        PROVE  /\ m \in Names \ renavigated /\ documentText[m] # Documents!Closed
               /\ known'[m] = known[m]
               /\ m \notin lagging' => m \notin lagging
               /\ documentText'[m] = documentText[m] /\ responses'[known[m]] = responses[known[m]]
    <3>1. m # n
        BY <1>1, <2>1 DEF DocumentTypes
    <3>2. documentText'[m] = documentText[m] /\ m \in Names \ renavigated /\ known'[m] = known[m]
        BY <1>1, <2>1, <3>1 DEF DocumentTypes
    <3>3. known[n] # 0 => known[m] # known[n]
        BY <3>1 DEF InfosOfOne, GeneratedInv
    <3>4. responses'[known[m]] = responses[known[m]]
      <4>1. known[m] # 0
          BY <1>1, <2>1, <3>2 DEF ShownIsGiven, GeneratedInv
      <4>2. known[m] \in Documents!Infos
          BY <4>1, NoVersions DEF DocumentTypes
      <4>3. CASE known[n] = 0
          BY <1>1, <4>3
      <4>4. CASE known[n] # 0
        <5>1. responses' = [responses EXCEPT ![known[n]] = Documents!Closed]
            BY <1>1, <4>4
        <5>. QED BY <3>3, <4>2, <4>4, <5>1 DEF DocumentTypes
      <4>. QED BY <4>3, <4>4
    <3>5. m \notin lagging' => m \notin lagging
        BY <1>1, <3>1
    <3>6. documentText[m] # Documents!Closed
        BY <2>1, <3>2
    <3>. QED BY <3>2, <3>4, <3>5, <3>6
  <2>. QED BY <1>1, <1>2, <2>1, NoVersions DEF ShownIsGiven, GeneratedInv
<1>8. KeptOfOpen'
  <2>1. ASSUME renavigated' = {}, NEW i \in Documents!Infos, responses'[i] # Documents!Closed
        PROVE  \E m \in Names : known'[m] = i /\ documentText'[m] # Documents!Closed
    <3>1. responses[i] # Documents!Closed /\ i # known[n]
        BY <1>1, <2>1, NoVersions DEF DocumentTypes
    <3>2. PICK m \in Names : known[m] = i /\ documentText[m] # Documents!Closed
        BY <1>1, <2>1, <3>1 DEF KeptOfOpen, GeneratedInv
    <3>3. m # n
        BY <3>1, <3>2
    <3>. QED BY <1>1, <3>2, <3>3 DEF DocumentTypes
  <2>. QED BY <2>1, NoVersions DEF KeptOfOpen
<1>. QED BY <1>1, <1>4, <1>5, <1>6, <1>7, <1>8, NoVersions DEF GeneratedInv

\* The output of a generator changes.
LEMMA RegeneratedKeeps ==
    ASSUME DocumentTypes, GeneratedInv, documentKind = "generated", documentKind' = documentKind,
           NEW n \in Names, Documents!Regenerated(n)
    PROVE  DocumentTypes' /\ GeneratedInv'
<1>1. PICK v \in 0 .. Documents!Deleted :
        /\ v # Documents!Closed
        /\ source' = [source EXCEPT ![n] = v]
        /\ lagging' = lagging \cup {n}
        /\ UNCHANGED <<documentText, calls, known, responses, requests, given, renavigated, crossed>>
  <2>1. source[n] \in 0 .. Documents!Deleted /\ source[n] < MaxVersions
      BY DEF Documents!Regenerated, DocumentTypes
  <2>2. /\ Documents!Deleted \in 0 .. Documents!Deleted /\ Documents!Deleted # Documents!Closed
        /\ source[n] + 1 \in 0 .. Documents!Deleted /\ source[n] + 1 # Documents!Closed
      BY <2>1, NoVersions
  <2>. QED BY <2>2 DEF Documents!Regenerated
<1>2. \A m \in Names : Documents!Asks(m)' = Documents!Asks(m)
    BY <1>1 DEF Documents!Asks
<1>3. DocumentTypes'
    BY <1>1, NoVersions DEF DocumentTypes, DocumentRequests
<1>4. InfosOfOne' /\ KeptOfOpen'
    BY <1>1, NoVersions DEF InfosOfOne, KeptOfOpen, GeneratedInv
<1>5. ContentAlone'
  <2>1. \A s \in requests : s.name \in Names
      BY DEF DocumentTypes, DocumentRequests
  <2>. QED BY <1>1, <1>2, <2>1, NoVersions DEF ContentAlone, GeneratedInv
<1>6. ShownIsGiven'
  <2>1. \A m \in Names : m \notin lagging' => m \notin lagging /\ source'[m] = source[m]
      BY <1>1 DEF DocumentTypes
  <2>. QED BY <1>1, <1>2, <2>1, NoVersions DEF ShownIsGiven, GeneratedInv
<1>7. \A m \in Names : source'[m] # Documents!Closed
    BY <1>1 DEF GeneratedInv, DocumentTypes
<1>. QED BY <1>1, <1>3, <1>4, <1>5, <1>6, <1>7, NoVersions DEF GeneratedInv

\* The editors are looked at.
LEMMA EditorsChangeKeeps ==
    ASSUME DocumentTypes, GeneratedInv, documentKind = "generated", documentKind' = documentKind,
           NEW n \in Names, Documents!EditorsChange(n)
    PROVE  DocumentTypes' /\ GeneratedInv'
<1> DEFINE new == Documents!Request(known[n], n, "update", 0)
<1>1. /\ documentText[n] # Documents!Closed /\ known[n] # 0
      /\ requests' = IF responses[known[n]] = Documents!Closed THEN requests ELSE requests \cup {new}
      /\ lagging' = lagging \ {n}
      /\ UNCHANGED <<documentText, source, calls, known, responses, given, renavigated, crossed>>
    BY DEF Documents!EditorsChange
<1>2. known[n] \in Nat \ {0} /\ 0 \in 0 .. Documents!Deleted /\ known[n] <= calls
    BY <1>1, NoVersions DEF DocumentTypes, InfosOfOne, GeneratedInv
<1>3. /\ new \in DocumentRequests /\ new.call = known[n] /\ new.name = n
      /\ new.step = "update"
    BY <1>2, RequestType
<1>. HIDE DEF new
<1>4. requests' \subseteq requests \cup {new} /\ requests \subseteq requests'
    BY <1>1
<1>5. DocumentTypes'
  <2>1. requests' \subseteq DocumentRequests /\ \A s \in requests' : s.call <= calls
      BY <1>2, <1>3, <1>4 DEF DocumentTypes
  <2>. QED BY <1>1, <2>1, NoVersions DEF DocumentTypes, DocumentRequests
<1>6. InfosOfOne'
  <2>1. ASSUME NEW s \in requests', NEW m \in Names, s.call = known[m] PROVE s.name = m
      BY <1>2, <1>3, <1>4, <2>1 DEF InfosOfOne, GeneratedInv
  <2>. QED BY <1>1, <2>1 DEF InfosOfOne, GeneratedInv
<1>7. \A m \in Names : m # n => Documents!Asks(m)' = Documents!Asks(m)
    BY <1>1, <1>3 DEF Documents!Asks
<1>8. ContentAlone'
  <2>1. ASSUME NEW s \in requests', s.step = "content"
        PROVE documentText'[s.name] = Documents!Closed /\ Documents!Asks(s.name)' = {s}
    <3>1. s \in requests /\ s.name \in Names
        BY <1>3, <1>4, <2>1 DEF DocumentTypes, DocumentRequests
    <3>2. documentText[s.name] = Documents!Closed /\ Documents!Asks(s.name) = {s}
        BY <2>1, <3>1 DEF ContentAlone, GeneratedInv
    <3>3. s.name # n
        BY <1>1, <3>2
    <3>. QED BY <1>1, <1>7, <3>1, <3>2, <3>3
  <2>. QED BY <2>1, NoVersions DEF ContentAlone
<1>9. ShownIsGiven'
  <2>1. ASSUME NEW m \in Names \ renavigated', documentText'[m] # Documents!Closed
        PROVE  /\ known'[m] # 0
               /\ \A s \in Documents!Asks(m)' : s.call = known'[m] /\ s.step = "update"
               /\ responses'[known'[m]] # Documents!Closed
               /\ documentText'[m] = given'[known'[m]]
               /\ m \notin lagging' /\ Documents!Asks(m)' = {} => documentText'[m] = source'[m]
    <3>1. m \in Names \ renavigated /\ documentText[m] # Documents!Closed
        BY <1>1, <2>1
    <3>2. CASE m # n
        BY <1>1, <1>7, <3>1, <3>2 DEF ShownIsGiven, GeneratedInv
    <3>3. CASE m = n
      <4>1. requests' = requests \cup {new}
          BY <1>1, <3>1, <3>3 DEF ShownIsGiven, GeneratedInv
      <4>2. Documents!Asks(m)' = Documents!Asks(m) \cup {new}
          BY <1>3, <3>3, <4>1 DEF Documents!Asks
      <4>. QED BY <1>1, <1>3, <3>1, <3>3, <4>2 DEF ShownIsGiven, GeneratedInv
    <3>. QED BY <3>2, <3>3
  <2>. QED BY <2>1, NoVersions DEF ShownIsGiven
<1>10. KeptOfOpen'
    BY <1>1, NoVersions DEF KeptOfOpen, GeneratedInv
<1>11. \A s \in requests' : s.step \in {"content", "update"}
    BY <1>3, <1>4 DEF GeneratedInv
<1>. QED BY <1>1, <1>5, <1>6, <1>8, <1>9, <1>10, <1>11, NoVersions DEF GeneratedInv

\* An update is answered, or a request fails.
LEMMA GeneratedAnswersKeep ==
    ASSUME DocumentTypes, GeneratedInv, documentKind = "generated", documentKind' = documentKind,
           NEW r \in requests, Documents!UpdateAnswered(r) \/ Documents!GeneratedFails(r)
    PROVE  DocumentTypes' /\ GeneratedInv'
<1> DEFINE n == r.name
           k == r.call
<1>1. /\ n \in Names /\ k \in Documents!Infos /\ source[n] \in 0 .. Documents!Deleted
      /\ source[n] # Documents!Closed
  <2>1. r.name \in Names /\ r.call \in Nat \ {0} /\ r.call <= calls /\ calls <= MaxCalls /\ calls \in Nat
      BY DEF DocumentTypes, DocumentRequests
  <2>. QED BY <2>1, NoVersions DEF DocumentTypes, GeneratedInv
<1>. HIDE DEF n, k
<1>2. /\ requests' = requests \ {r} /\ UNCHANGED <<source, calls, known, renavigated, crossed>>
      /\ \/ /\ given' = [given EXCEPT ![k] = source[n]]
            /\ responses' = IF responses[k] = Documents!Closed THEN responses
                            ELSE [responses EXCEPT ![k] = source[n]]
            /\ documentText' = IF given[k] = source[n] \/ documentText[n] = Documents!Closed \/ known[n] # k
                               THEN documentText ELSE [documentText EXCEPT ![n] = source[n]]
            /\ lagging' = lagging
         \/ UNCHANGED <<documentText, responses, given>> /\ lagging' = lagging \cup {n}
    BY DEF Documents!UpdateAnswered, Documents!GeneratedFails, n, k
<1>3. DocumentTypes'
    BY <1>1, <1>2, NoVersions DEF DocumentTypes, DocumentRequests
<1>4. InfosOfOne' /\ \A s \in requests' : s.step \in {"content", "update"}
    BY <1>2 DEF InfosOfOne, GeneratedInv
<1>5. \A m \in Names : documentText'[m] = Documents!Closed <=> documentText[m] = Documents!Closed
    BY <1>1, <1>2 DEF DocumentTypes
<1>6. \A m \in Names : known[m] = k => m = n
    BY DEF InfosOfOne, GeneratedInv, n, k
<1>7. /\ \A m \in Names : m # n => Documents!Asks(m)' = Documents!Asks(m)
      /\ Documents!Asks(n)' = Documents!Asks(n) \ {r} /\ r \in Documents!Asks(n)
    BY <1>2 DEF Documents!Asks, n
<1>8. ContentAlone'
  <2>1. ASSUME NEW s \in requests', s.step = "content"
        PROVE documentText'[s.name] = Documents!Closed /\ Documents!Asks(s.name)' = {s}
    <3>1. s \in requests /\ s # r /\ s.name \in Names
        BY <1>2, <2>1 DEF DocumentTypes, DocumentRequests
    <3>2. documentText[s.name] = Documents!Closed /\ Documents!Asks(s.name) = {s}
        BY <2>1, <3>1 DEF ContentAlone, GeneratedInv
    <3>3. s.name # n
        BY <1>7, <3>1, <3>2
    <3>. QED BY <1>5, <1>7, <3>1, <3>2, <3>3
  <2>. QED BY <2>1, NoVersions DEF ContentAlone
<1>9. ShownIsGiven'
  <2>1. ASSUME NEW m \in Names \ renavigated', documentText'[m] # Documents!Closed
        PROVE  /\ known'[m] # 0
               /\ \A s \in Documents!Asks(m)' : s.call = known'[m] /\ s.step = "update"
               /\ responses'[known'[m]] # Documents!Closed
               /\ documentText'[m] = given'[known'[m]]
               /\ m \notin lagging' /\ Documents!Asks(m)' = {} => documentText'[m] = source'[m]
    <3>1. /\ m \in Names \ renavigated /\ documentText[m] # Documents!Closed
        BY <1>2, <1>5, <2>1
    <3>2. /\ known[m] # 0 /\ \A s \in Documents!Asks(m) : s.call = known[m] /\ s.step = "update"
          /\ responses[known[m]] # Documents!Closed
          /\ documentText[m] = given[known[m]]
          /\ m \notin lagging /\ Documents!Asks(m) = {} => documentText[m] = source[m]
        BY <3>1 DEF ShownIsGiven, GeneratedInv
    <3>3. CASE m # n
      <4>1. known[m] # k
          BY <1>6, <3>3
      <4>2. documentText'[m] = documentText[m] /\ source'[m] = source[m] /\ known'[m] = known[m]
          BY <1>2, <3>3 DEF DocumentTypes
      <4>3. responses'[known[m]] = responses[known[m]] /\ given'[known[m]] = given[known[m]]
        <5>1. known[m] \in Documents!Infos
            BY <3>2, NoVersions DEF DocumentTypes
        <5>. QED BY <1>2, <4>1, <5>1 DEF DocumentTypes
      <4>4. m \notin lagging' => m \notin lagging
          BY <1>2
      <4>. QED BY <1>2, <1>7, <3>2, <3>3, <4>2, <4>3, <4>4
    <3>4. CASE m = n
      <4>1. known[n] = k
          BY <1>7, <3>2, <3>4 DEF k
      <4>2. responses'[k] # Documents!Closed
          BY <1>1, <1>2, <3>2, <3>4, <4>1 DEF DocumentTypes
      <4>3. documentText'[n] = given'[k] /\ (n \notin lagging' => documentText'[n] = source'[n])
          BY <1>1, <1>2, <3>1, <3>2, <3>4, <4>1 DEF DocumentTypes
      <4>. QED BY <1>2, <1>7, <3>2, <3>4, <4>1, <4>2, <4>3
    <3>. QED BY <3>3, <3>4
  <2>. QED BY <2>1, NoVersions DEF ShownIsGiven
<1>10. KeptOfOpen'
  <2>1. \A i \in Documents!Infos : responses'[i] # Documents!Closed => responses[i] # Documents!Closed
      BY <1>2 DEF DocumentTypes
  <2>. QED BY <1>2, <1>5, <2>1, NoVersions DEF KeptOfOpen, GeneratedInv
<1>. QED BY <1>2, <1>3, <1>4, <1>8, <1>9, <1>10, NoVersions DEF GeneratedInv

-----------------------------------------------------------------------------
(* Metadata as source.                                                       *)

\* What is asked for, found and opened.
LEMMA NextMetadata ==
    ASSUME DocumentTypes, MetadataInv, documentKind = "metadata", documentKind' = documentKind,
           Documents!Metadata
    PROVE  DocumentTypes' /\ MetadataInv'
<1>1. \A s \in requests :
        s \in DocumentRequests /\ s.name \in Names /\ s.call \in Nat \ {0} /\ s.call <= calls
    BY DEF DocumentTypes, DocumentRequests
<1>2. calls \in Nat /\ calls <= MaxCalls
    BY DEF DocumentTypes
<1>3. ASSUME NEW n \in Names, Documents!MetadataDefinition(n) PROVE DocumentTypes' /\ MetadataInv'
  <2> DEFINE step == IF known[n] = 0 THEN "metadata" ELSE "open"
             new == Documents!Request(calls + 1, n, step, 0)
  <2>1. /\ calls < MaxCalls /\ calls' = calls + 1 /\ requests' = requests \cup {new}
        /\ UNCHANGED <<documentText, source, known, responses, given, renavigated, crossed, lagging>>
      BY <1>3 DEF Documents!MetadataDefinition
  <2>2. calls + 1 \in Nat \ {0} /\ 0 \in 0 .. Documents!Deleted /\ step \in {"metadata", "open"}
      BY <1>2, NoVersions
  <2>3. /\ new \in DocumentRequests /\ new.call = calls + 1 /\ new.name = n
        /\ new.step = IF known[n] = 0 THEN "metadata" ELSE "open"
      BY <2>2, RequestType
  <2>. HIDE DEF new
  <2>4. \A s \in requests' : s \in DocumentRequests /\ s.call <= calls'
      BY <1>1, <1>2, <2>1, <2>2, <2>3 DEF DocumentRequests
  <2>5. DocumentTypes'
      BY <1>2, <2>1, <2>2, <2>4, NoVersions DEF DocumentTypes, DocumentRequests
  <2>6. ASSUME NEW m \in Names \ crossed', NEW s \in Documents!Asks(m)', s.step = "open"
        PROVE known'[m] # 0
      BY <2>1, <2>3, <2>6 DEF MetadataInv, Documents!Asks
  <2>. QED BY <2>1, <2>3, <2>5, <2>6, NoVersions DEF MetadataInv
<1>4. ASSUME NEW r \in requests, Documents!MetadataAnswered(r) PROVE DocumentTypes' /\ MetadataInv'
  <2> DEFINE new == [r EXCEPT !.step = "open"]
  <2>1. /\ r.step = "metadata" /\ known' = [known EXCEPT ![r.name] = r.call]
        /\ requests' = (requests \ {r}) \cup {new}
        /\ UNCHANGED <<documentText, source, calls, responses, given, renavigated, crossed, lagging>>
      BY <1>4 DEF Documents!MetadataAnswered
  <2>2. new \in DocumentRequests /\ new.call = r.call /\ new.name = r.name /\ new.step = "open"
      BY <1>1 DEF DocumentRequests
  <2>. HIDE DEF new
  <2>3. r.call \in 0 .. MaxCalls /\ r.call # 0 /\ r.name \in Names
      BY <1>1, <1>2, NoVersions
  <2>4. \A s \in requests' : s \in DocumentRequests /\ s.call <= calls
      BY <1>1, <2>1, <2>2
  <2>5. DocumentTypes'
      BY <2>1, <2>3, <2>4, NoVersions DEF DocumentTypes, DocumentRequests
  <2>6. ASSUME NEW m \in Names \ crossed', NEW s \in Documents!Asks(m)', s.step = "open"
        PROVE known'[m] # 0
      BY <2>1, <2>2, <2>3, <2>6 DEF MetadataInv, Documents!Asks, DocumentTypes
  <2>. QED BY <2>1, <2>2, <2>5, <2>6, NoVersions DEF MetadataInv
<1>5. ASSUME NEW r \in requests, Documents!LocationOpens(r) PROVE DocumentTypes' /\ MetadataInv'
  <2>1. PICK v \in {0, Documents!Deleted} :
           /\ r.step = "open" /\ v = IF known[r.name] = 0 THEN Documents!Deleted ELSE 0
           /\ documentText' \in {documentText, [documentText EXCEPT ![r.name] = v]}
           /\ requests' = requests \ {r}
           /\ UNCHANGED <<source, calls, known, responses, given, renavigated, crossed, lagging>>
      BY <1>5 DEF Documents!LocationOpens
  <2>2. v \in 0 .. Documents!Deleted /\ Documents!Deleted # 0
      BY NoVersions
  <2>3. DocumentTypes'
      BY <2>1, <2>2, NoVersions DEF DocumentTypes, DocumentRequests
  <2>4. ASSUME NEW m \in Names \ crossed' PROVE documentText'[m] # Documents!Deleted
    <3>1. m \in Names \ crossed /\ documentText[m] # Documents!Deleted
        BY <2>1, <2>4 DEF MetadataInv
    <3>2. m = r.name => known[m] # 0
        BY <2>1, <3>1 DEF MetadataInv, Documents!Asks
    <3>. QED BY <2>1, <2>2, <3>1, <3>2 DEF DocumentTypes
  <2>5. ASSUME NEW m \in Names \ crossed', NEW s \in Documents!Asks(m)', s.step = "open"
        PROVE known'[m] # 0
      BY <2>1, <2>5 DEF MetadataInv, Documents!Asks
  <2>. QED BY <2>1, <2>3, <2>4, <2>5, NoVersions DEF MetadataInv
<1>6. ASSUME NEW n \in Names, Documents!MetadataCloses(n) PROVE DocumentTypes' /\ MetadataInv'
  <2>1. /\ documentText' = [documentText EXCEPT ![n] = Documents!Closed]
        /\ known' = [known EXCEPT ![n] = 0]
        /\ crossed' = IF Documents!Asks(n) = {} THEN crossed ELSE crossed \cup {n}
        /\ UNCHANGED <<source, calls, responses, requests, given, renavigated, lagging>>
      BY <1>6 DEF Documents!MetadataCloses
  <2>2. /\ Documents!Closed \in 0 .. Documents!Deleted /\ Documents!Closed # Documents!Deleted
        /\ 0 \in 0 .. MaxCalls
      BY NoVersions
  <2>3. DocumentTypes'
      BY <2>1, <2>2, NoVersions DEF DocumentTypes, DocumentRequests
  <2>4. ASSUME NEW m \in Names \ crossed'
        PROVE  /\ documentText'[m] # Documents!Deleted
               /\ \A s \in Documents!Asks(m)' : s.step = "open" => known'[m] # 0
    <3>1. m \in Names \ crossed /\ Documents!Asks(m)' = Documents!Asks(m)
        BY <2>1, <2>4 DEF Documents!Asks
    <3>2. CASE m = n
      <4>1. Documents!Asks(m) = {}
          BY <2>1, <2>4, <3>2
      <4>. QED BY <2>1, <2>2, <3>1, <3>2, <4>1 DEF DocumentTypes
    <3>3. CASE m # n
        BY <2>1, <3>1, <3>3 DEF DocumentTypes, MetadataInv
    <3>. QED BY <3>2, <3>3
  <2>. QED BY <2>1, <2>3, <2>4, NoVersions DEF MetadataInv
<1>7. ASSUME NEW r \in requests, Documents!MetadataFails(r) PROVE DocumentTypes' /\ MetadataInv'
  <2>1. /\ requests' = requests \ {r}
        /\ UNCHANGED <<documentText, source, calls, known, responses, given, renavigated, crossed, lagging>>
      BY <1>7 DEF Documents!MetadataFails
  <2>2. DocumentTypes'
      BY <2>1, NoVersions DEF DocumentTypes, DocumentRequests
  <2>. QED BY <2>1, <2>2, NoVersions DEF MetadataInv, Documents!Asks
<1>. QED BY <1>3, <1>4, <1>5, <1>6, <1>7 DEF Documents!Metadata

-----------------------------------------------------------------------------

\* Every step keeps the invariant.
LEMMA NextDocumentsInv == DocumentsInv /\ Documents!Next => DocumentsInv'
<1> SUFFICES ASSUME DocumentsInv, Documents!Next PROVE DocumentsInv'
    OBVIOUS
<1>1. DocumentTypes /\ documentKind' = documentKind /\ documentKind \in {"virtual", "generated", "metadata"}
    BY DEF DocumentsInv, Documents!Next
<1>2. CASE documentKind = "virtual"
  <2>1. VirtualInv /\ Documents!Virtual
      BY <1>2 DEF DocumentsInv, Documents!Next
  <2>2. DocumentTypes' /\ VirtualInv'
      BY <1>1, <1>2, <2>1, VirtualEditsKeep, VirtualAnswersKeep DEF Documents!Virtual
  <2>. QED BY <1>1, <1>2, <2>2 DEF DocumentsInv
<1>3. CASE documentKind = "generated"
  <2>1. GeneratedInv /\ Documents!Generated
      BY <1>3 DEF DocumentsInv, Documents!Next
  <2>2. DocumentTypes' /\ GeneratedInv'
      BY <1>1, <1>3, <2>1, GeneratedDefinitionKeeps, ContentAnsweredKeeps, GeneratedClosesKeeps,
         RegeneratedKeeps, EditorsChangeKeeps, GeneratedAnswersKeep DEF Documents!Generated
  <2>. QED BY <1>1, <1>3, <2>2 DEF DocumentsInv
<1>4. CASE documentKind = "metadata"
  <2>1. MetadataInv /\ Documents!Metadata
      BY <1>4 DEF DocumentsInv, Documents!Next
  <2>2. DocumentTypes' /\ MetadataInv'
      BY <1>1, <1>4, <2>1, NextMetadata
  <2>. QED BY <1>1, <1>4, <2>2 DEF DocumentsInv
<1>. QED BY <1>1, <1>2, <1>3, <1>4

\* As many responses are kept as documents are open, at most.
LEMMA KeptAreFew ==
    ASSUME DocumentTypes, KeptOfOpen, renavigated = {}
    PROVE  Cardinality({i \in Documents!Infos : responses[i] # Documents!Closed})
              <= Cardinality({n \in Names : documentText[n] # Documents!Closed})
<1> DEFINE Kept == {i \in Documents!Infos : responses[i] # Documents!Closed}
           Shown == {n \in Names : documentText[n] # Documents!Closed}
           f == [i \in Kept |-> CHOOSE n \in Shown : known[n] = i]
<1>1. \A i \in Kept : f[i] \in Shown /\ known[f[i]] = i
    BY DEF KeptOfOpen
<1>2. f \in [Kept -> Shown] /\ \A i \in Kept, j \in Kept : f[i] = f[j] => i = j
  <2>1. \A i \in Kept, j \in Kept : f[i] = f[j] => i = j
      BY <1>1
  <2>. QED BY <1>1, <2>1
<1>. HIDE DEF Kept, Shown, f
<1>5. f \in Injection(Kept, Shown)
    BY <1>2 DEF Injection, IsInjective
<1>3. IsFiniteSet(Shown)
    BY BoundsAssumption, FS_Subset DEF Shown
<1>4. Cardinality(Kept) <= Cardinality(Shown)
    BY <1>5, <1>3, FS_Injection
<1>. QED BY <1>4 DEF Kept, Shown

\* The invariant gives what is checked.
LEMMA DocumentsInvFit == DocumentsInv => Documents!DocumentsFit
<1> SUFFICES ASSUME DocumentsInv PROVE Documents!DocumentsFit
    OBVIOUS
<1>1. DocumentTypes /\ documentKind \in {"virtual", "generated", "metadata"}
    BY DEF DocumentsInv
<1>2. Documents!TypeOK
    BY <1>1 DEF Documents!TypeOK, DocumentTypes, DocumentRequests
<1>3. Documents!VirtualInStep
    BY DEF Documents!VirtualInStep, DocumentsInv, VirtualInv, LastRequest, Documents!Asks
<1>4. Documents!GeneratedInStep
    BY DEF Documents!GeneratedInStep, DocumentsInv, GeneratedInv, ShownIsGiven, Documents!Asks
<1>5. Documents!NothingKept
  <2>1. SUFFICES ASSUME documentKind = "generated", renavigated = {} PROVE Documents!NothingKept
      BY DEF Documents!NothingKept
  <2>2. KeptOfOpen
      BY <2>1 DEF DocumentsInv, GeneratedInv
  <2>. QED BY <1>1, <2>1, <2>2, KeptAreFew DEF Documents!NothingKept, Documents!Cardinality, Cardinality
<1>6. Documents!MetadataHasText
    BY DEF Documents!MetadataHasText, DocumentsInv, MetadataInv
<1>. QED BY <1>2, <1>3, <1>4, <1>5, <1>6 DEF Documents!DocumentsFit

-----------------------------------------------------------------------------
(* The problems OmniSharp finds.                                             *)

\* What is shown of all files, or is in them, and the checks under way.
Shows == [Docs -> OmniSharp!Contents]
CodeChecks == [target : Docs \cup {Everything}, found : Shows, rest : SUBSET Docs,
               overtaken : SUBSET Docs, closed : BOOLEAN]

\* Types: as many checks as may be under way.
DiagnosticsTypes ==
    /\ running \in BOOLEAN /\ analyzers \in BOOLEAN /\ allPending \in BOOLEAN /\ analysis \in BOOLEAN
    /\ disk \in Shows /\ text \in Shows /\ buffer \in Shows /\ shown \in Shows
    /\ opened \subseteq Docs /\ visible \subseteq opened
    /\ behind \subseteq Docs /\ unchecked \subseteq Docs /\ over \subseteq Docs
    /\ counts \in [Projects -> {0, 1}]
    /\ underWay \in Nat /\ orphans \in Nat /\ restores = underWay + orphans
    /\ current \in Docs \cup {NoDoc}
    /\ checks \in Seq(CodeChecks) /\ Len(checks) <= MaxAsked

\* A running server knows the text of a document that is not behind.
BufferIsText == running => \A d \in Docs \ behind : buffer[d] = text[d]

\* None is kept out of the view while all files are checked, or with no server.
NoneOver == (~running \/ OmniSharp!ShouldValidateAll) => over = {}

\* A check of a document that is closed is marked.
ClosedMarked(c) == \A i \in DOMAIN c : c[i].target \in Docs \ opened => c[i].closed

\* A file that is kept out has no entry, and a check under way for it will not add one.
ClosedClean ==
    /\ \A d \in over \ opened : shown[d] = "clean"
    /\ ClosedMarked(checks)

\* Of checks c: where one was overtaken for a document, those before it were.
OvertakenFirst(c) ==
    \A i \in DOMAIN c, j \in DOMAIN c : \A d \in OmniSharp!Covers(c[i]) \cap OmniSharp!Covers(c[j]) :
        i < j /\ d \in c[j].overtaken => d \in c[i].overtaken

\* The last of them for a document finds its contents, and is not dropped.
LastFinds(c, d, contents) ==
    \A i \in DOMAIN c :
        /\ d \in OmniSharp!Covers(c[i]) /\ d \notin c[i].overtaken
        /\ \A j \in DOMAIN c : i < j => d \notin OmniSharp!Covers(c[j])
        => c[i].found[d] = contents /\ (c[i].target = Everything \/ ~c[i].closed)

\* None of them counts any more for a document.
AllOvertaken(c, d) == \A i \in DOMAIN c : d \in OmniSharp!Covers(c[i]) => d \in c[i].overtaken

\* It is of the documents one of them has still to ask for.
InTurn(c, d) == \E i \in DOMAIN c : d \in c[i].rest

\* A check of the document, or of all, is still to be asked for.
Comes(d) == allPending \/ analysis \/ restores # 0 \/ ~running \/ InTurn(checks, d)

\* What is under way, or is shown, is of the text.
Settled(d) ==
    /\ LastFinds(checks, d, text[d])
    /\ AllOvertaken(checks, d) /\ d \notin unchecked => shown[d] = text[d]

\* Of a document an editor shows, a check comes or the last one counts.
NothingForgotten == \A d \in visible \ behind : Comes(d) \/ Settled(d)

\* The invariant of the problems OmniSharp finds.
DiagnosticsInv ==
    /\ DiagnosticsTypes /\ BufferIsText /\ NoneOver /\ ClosedClean /\ OvertakenFirst(checks)
    /\ NothingForgotten

\* A check by its fields.
LEMMA CheckFields ==
    ASSUME NEW c \in CodeChecks
    PROVE  /\ c.target \in Docs \cup {Everything} /\ c.found \in Shows /\ c.rest \subseteq Docs
           /\ c.overtaken \subseteq Docs /\ c.closed \in BOOLEAN
           /\ OmniSharp!Covers(c) \subseteq Docs
    BY DEF CodeChecks, OmniSharp!Covers

\* A check as it is asked for.
LEMMA CheckType ==
    ASSUME DiagnosticsTypes, NEW target \in Docs \cup {Everything}, NEW rest \in SUBSET Docs
    PROVE  /\ OmniSharp!Check(target, rest) \in CodeChecks
           /\ OmniSharp!Check(target, rest).target = target
           /\ OmniSharp!Check(target, rest).found = buffer
           /\ OmniSharp!Check(target, rest).rest = rest
           /\ OmniSharp!Check(target, rest).overtaken = {}
           /\ OmniSharp!Check(target, rest).closed <=> target # Everything /\ target \notin opened
    BY DEF OmniSharp!Check, CodeChecks, DiagnosticsTypes

-----------------------------------------------------------------------------
(* One more check.                                                           *)

\* It counts for all that it covers.
LEMMA AppendedCheck ==
    ASSUME NEW c \in Seq(CodeChecks), NEW x \in CodeChecks, x.overtaken = {}, OvertakenFirst(c)
    PROVE  /\ OvertakenFirst(Append(c, x))
           /\ \A d \in Docs, contents \in OmniSharp!Contents :
                /\ d \notin OmniSharp!Covers(x) /\ LastFinds(c, d, contents) =>
                     LastFinds(Append(c, x), d, contents)
                /\ (/\ d \in OmniSharp!Covers(x) /\ x.found[d] = contents
                    /\ x.target = Everything \/ ~x.closed) =>
                     LastFinds(Append(c, x), d, contents)
           /\ \A d \in Docs :
                /\ AllOvertaken(Append(c, x), d) => d \notin OmniSharp!Covers(x) /\ AllOvertaken(c, d)
                /\ InTurn(c, d) \/ d \in x.rest => InTurn(Append(c, x), d)
<1> DEFINE n == Len(c)
           a == Append(c, x)
<1>1. /\ n \in Nat /\ DOMAIN c = 1 .. n /\ DOMAIN a = 1 .. n + 1
      /\ \A i \in 1 .. n : a[i] = c[i]
      /\ a[n + 1] = x
  <2>1. a \in Seq(CodeChecks) /\ Len(a) = n + 1
      BY AppendProperties
  <2>. QED BY <2>1, AppendProperties, LenProperties
<1>. HIDE DEF n, a
<1>2. \A i \in DOMAIN a : i = n + 1 \/ (i \in DOMAIN c /\ a[i] = c[i] /\ i < n + 1)
    BY <1>1
<1>3. \A i \in DOMAIN c : i \in DOMAIN a /\ a[i] = c[i] /\ i < n + 1 /\ n + 1 \in DOMAIN a
    BY <1>1
<1>4. OvertakenFirst(a)
  <2>1. ASSUME NEW i \in DOMAIN a, NEW j \in DOMAIN a, i < j,
               NEW d \in OmniSharp!Covers(a[i]) \cap OmniSharp!Covers(a[j]), d \in a[j].overtaken
        PROVE  d \in a[i].overtaken
    <3>1. j # n + 1
        BY <1>1, <2>1
    <3>2. i # n + 1
        BY <1>1, <2>1
    <3>. QED BY <1>2, <2>1, <3>1, <3>2 DEF OvertakenFirst
  <2>. QED BY <2>1 DEF OvertakenFirst
<1>5. ASSUME NEW d \in Docs, NEW contents \in OmniSharp!Contents,
             d \notin OmniSharp!Covers(x), LastFinds(c, d, contents)
      PROVE  LastFinds(a, d, contents)
  <2>1. SUFFICES ASSUME NEW i \in DOMAIN a, d \in OmniSharp!Covers(a[i]), d \notin a[i].overtaken,
                        \A j \in DOMAIN a : i < j => d \notin OmniSharp!Covers(a[j])
                 PROVE  a[i].found[d] = contents /\ (a[i].target = Everything \/ ~a[i].closed)
      BY DEF LastFinds
  <2>2. i \in DOMAIN c /\ a[i] = c[i]
      BY <1>1, <1>2, <1>5, <2>1
  <2>3. \A j \in DOMAIN c : i < j => d \notin OmniSharp!Covers(c[j])
      BY <1>3, <2>1
  <2>. QED BY <1>5, <2>1, <2>2, <2>3 DEF LastFinds
<1>6. ASSUME NEW d \in Docs, NEW contents \in OmniSharp!Contents,
             d \in OmniSharp!Covers(x), x.found[d] = contents, x.target = Everything \/ ~x.closed
      PROVE  LastFinds(a, d, contents)
  <2>1. SUFFICES ASSUME NEW i \in DOMAIN a, d \in OmniSharp!Covers(a[i]),
                        \A j \in DOMAIN a : i < j => d \notin OmniSharp!Covers(a[j])
                 PROVE  a[i].found[d] = contents /\ (a[i].target = Everything \/ ~a[i].closed)
      BY DEF LastFinds
  <2>2. i = n + 1
      BY <1>1, <1>2, <1>3, <1>6, <2>1
  <2>. QED BY <1>1, <1>6, <2>2
<1>7. ASSUME NEW d \in Docs, AllOvertaken(a, d)
      PROVE  d \notin OmniSharp!Covers(x) /\ AllOvertaken(c, d)
    BY <1>1, <1>3, <1>7 DEF AllOvertaken
<1>8. ASSUME NEW d \in Docs, InTurn(c, d) \/ d \in x.rest PROVE InTurn(a, d)
    BY <1>1, <1>3, <1>8 DEF InTurn
<1>. QED BY <1>4, <1>5, <1>6, <1>7, <1>8 DEF a

-----------------------------------------------------------------------------
(* One check less.                                                           *)

\* The check at i is over, and those before it are overtaken where it covers.
Over(c, i) ==
    OmniSharp!RemoveAt([j \in DOMAIN c |->
        IF j < i THEN [c[j] EXCEPT !.overtaken = @ \cup OmniSharp!Covers(c[i])] ELSE c[j]], i)

\* Where it was.
Was(k, i) == IF k < i THEN k ELSE k + 1

\* The checks that remain, by where they were.
LEMMA OverIs ==
    ASSUME NEW c \in Seq(CodeChecks), NEW i \in DOMAIN c
    PROVE  /\ Over(c, i) \in Seq(CodeChecks) /\ Len(Over(c, i)) = Len(c) - 1
           /\ \A k \in DOMAIN Over(c, i) :
                /\ Was(k, i) \in DOMAIN c /\ Was(k, i) # i
                /\ Over(c, i)[k].target = c[Was(k, i)].target
                /\ Over(c, i)[k].found = c[Was(k, i)].found
                /\ Over(c, i)[k].rest = c[Was(k, i)].rest
                /\ Over(c, i)[k].closed = c[Was(k, i)].closed
                /\ OmniSharp!Covers(Over(c, i)[k]) = OmniSharp!Covers(c[Was(k, i)])
                /\ Over(c, i)[k].overtaken = IF Was(k, i) < i
                      THEN c[Was(k, i)].overtaken \cup OmniSharp!Covers(c[i])
                      ELSE c[Was(k, i)].overtaken
           /\ \A j \in DOMAIN c : j # i => \E k \in DOMAIN Over(c, i) : Was(k, i) = j
           /\ \A k \in DOMAIN Over(c, i), l \in DOMAIN Over(c, i) : k < l <=> Was(k, i) < Was(l, i)
<1> DEFINE n == Len(c)
           m == [j \in DOMAIN c |->
                   IF j < i THEN [c[j] EXCEPT !.overtaken = @ \cup OmniSharp!Covers(c[i])] ELSE c[j]]
           before == SubSeq(m, 1, i - 1)
           after == SubSeq(m, i + 1, Len(m))
<1>1. n \in Nat /\ DOMAIN c = 1 .. n /\ i \in 1 .. n /\ i \in Int /\ \A j \in 1 .. n : c[j] \in CodeChecks
    BY LenProperties
<1>2. ASSUME NEW j \in 1 .. n
      PROVE  /\ m[j] \in CodeChecks
             /\ m[j].target = c[j].target /\ m[j].found = c[j].found /\ m[j].rest = c[j].rest
             /\ m[j].closed = c[j].closed
             /\ m[j].overtaken = IF j < i THEN c[j].overtaken \cup OmniSharp!Covers(c[i]) ELSE c[j].overtaken
  <2>1. c[j] \in CodeChecks /\ OmniSharp!Covers(c[i]) \subseteq Docs
      BY <1>1, CheckFields
  <2>2. m[j] = IF j < i THEN [c[j] EXCEPT !.overtaken = @ \cup OmniSharp!Covers(c[i])] ELSE c[j]
      BY <1>1
  <2>. HIDE DEF m
  <2>. QED BY <2>1, <2>2 DEF CodeChecks
<1>14. \A j \in 1 .. n : m[j] \in CodeChecks
    BY <1>2
<1>3. m \in Seq(CodeChecks) /\ Len(m) = n
  <2>1. m = [j \in 1 .. n |-> m[j]]
      BY <1>1
  <2>. HIDE DEF m
  <2>2. m \in [1 .. n -> CodeChecks]
      BY <1>14, <2>1
  <2>. QED BY <1>1, <2>2
<1>. HIDE DEF m, n
<1>4. /\ before \in Seq(CodeChecks) /\ Len(before) = i - 1
      /\ \A j \in 1 .. i - 1 : before[j] = m[j]
  <2>1. \A j \in 1 .. i - 1 : m[j] \in CodeChecks
      BY <1>1, <1>14
  <2>2. 1 \in Int /\ i - 1 \in Int /\ 0 <= i - 1
      BY <1>1
  <2>3. /\ before \in Seq(CodeChecks) /\ Len(before) = IF 1 <= i - 1 THEN (i - 1) - 1 + 1 ELSE 0
        /\ \A j \in 1 .. (i - 1) - 1 + 1 : before[j] = m[1 + j - 1]
      BY <2>1, <2>2, SubSeqProperties
  <2>. HIDE DEF before
  <2>. QED BY <2>2, <2>3
<1>5. /\ after \in Seq(CodeChecks) /\ Len(after) = n - i
      /\ \A j \in 1 .. n - i : after[j] = m[i + j]
  <2>1. \A j \in i + 1 .. n : m[j] \in CodeChecks
      BY <1>1, <1>14
  <2>2. i + 1 \in Int /\ n \in Int /\ i <= n
      BY <1>1
  <2>3. /\ after \in Seq(CodeChecks) /\ Len(after) = IF i + 1 <= n THEN n - (i + 1) + 1 ELSE 0
        /\ \A j \in 1 .. n - (i + 1) + 1 : after[j] = m[(i + 1) + j - 1]
      BY <1>3, <2>1, <2>2, SubSeqProperties
  <2>4. /\ n - (i + 1) + 1 = n - i /\ (~(i + 1 <= n) => n - i = 0)
        /\ \A j \in 1 .. n - i : (i + 1) + j - 1 = i + j
      BY <1>1
  <2>. HIDE DEF after
  <2>5. Len(after) = n - i
      BY <2>3, <2>4
  <2>. QED BY <2>3, <2>4, <2>5
<1> DEFINE o == Over(c, i)
<1>6. o = before \o after
    BY DEF Over, OmniSharp!RemoveAt, m
<1>. HIDE DEF before, after
<1>7. /\ o \in Seq(CodeChecks) /\ Len(o) = n - 1
      /\ \A j \in 1 .. n - 1 : o[j] = IF j < i THEN m[j] ELSE m[j + 1]
  <2>1. /\ before \o after \in Seq(CodeChecks)
        /\ Len(before \o after) = Len(before) + Len(after)
        /\ \A j \in 1 .. Len(before) + Len(after) : (before \o after)[j] =
              IF j <= Len(before) THEN before[j] ELSE after[j - Len(before)]
      BY <1>4, <1>5, ConcatProperties
  <2>. HIDE DEF o
  <2>2. /\ o \in Seq(CodeChecks) /\ Len(o) = (i - 1) + (n - i)
        /\ \A j \in 1 .. (i - 1) + (n - i) : o[j] = IF j <= i - 1 THEN before[j] ELSE after[j - (i - 1)]
      BY <1>4, <1>5, <1>6, <2>1
  <2>3. ASSUME NEW j \in 1 .. n - 1 PROVE o[j] = IF j < i THEN m[j] ELSE m[j + 1]
    <3>1. CASE j < i
        BY <1>1, <1>4, <2>2, <3>1
    <3>2. CASE ~(j < i)
      <4>1. j - (i - 1) \in 1 .. n - i /\ i + (j - (i - 1)) = j + 1
          BY <1>1, <3>2
      <4>2. o[j] = after[j - (i - 1)]
          BY <1>1, <2>2, <3>2
      <4>. QED BY <1>5, <3>2, <4>1, <4>2
    <3>. QED BY <3>1, <3>2
  <2>. QED BY <1>1, <2>2, <2>3
<1>. HIDE DEF o
<1>8. DOMAIN o = 1 .. n - 1
    BY <1>7, LenProperties
<1>9. ASSUME NEW k \in DOMAIN o
      PROVE  Was(k, i) \in 1 .. n /\ Was(k, i) # i /\ o[k] = m[Was(k, i)]
    BY <1>1, <1>7, <1>8 DEF Was
<1>10. ASSUME NEW k \in DOMAIN o
       PROVE  OmniSharp!Covers(o[k]) = OmniSharp!Covers(c[Was(k, i)])
    BY <1>2, <1>9 DEF OmniSharp!Covers
<1>11. ASSUME NEW j \in DOMAIN c, j # i PROVE \E k \in DOMAIN o : Was(k, i) = j
  <2>1. CASE j < i
      BY <1>1, <1>8, <2>1 DEF Was
  <2>2. CASE i < j
    <3>1. j - 1 \in DOMAIN o /\ Was(j - 1, i) = j
        BY <1>1, <1>8, <2>2 DEF Was
    <3>. QED BY <3>1
  <2>. QED BY <1>1, <1>11, <2>1, <2>2
<1>12. \A k \in DOMAIN o, l \in DOMAIN o : k < l <=> Was(k, i) < Was(l, i)
    BY <1>1, <1>8 DEF Was
<1>13. n = Len(c)
    BY DEF n
<1>. QED BY <1>1, <1>2, <1>7, <1>9, <1>10, <1>11, <1>12, <1>13 DEF o

\* What the end of a check leaves of the others.
LEMMA OverKeeps ==
    ASSUME NEW c \in Seq(CodeChecks), NEW i \in DOMAIN c, OvertakenFirst(c)
    PROVE  /\ OvertakenFirst(Over(c, i))
           /\ \A d \in Docs, contents \in OmniSharp!Contents :
                LastFinds(c, d, contents) => LastFinds(Over(c, i), d, contents)
           /\ \A d \in Docs \ OmniSharp!Covers(c[i]) : AllOvertaken(Over(c, i), d) => AllOvertaken(c, d)
           /\ \A d \in OmniSharp!Covers(c[i]) \ c[i].overtaken, contents \in OmniSharp!Contents :
                LastFinds(c, d, contents) /\ AllOvertaken(Over(c, i), d) =>
                    c[i].found[d] = contents /\ (c[i].target = Everything \/ ~c[i].closed)
           /\ \A d \in OmniSharp!Covers(c[i]) \cap c[i].overtaken :
                AllOvertaken(Over(c, i), d) => AllOvertaken(c, d)
           /\ \A d \in Docs : InTurn(c, d) => InTurn(Over(c, i), d) \/ d \in c[i].rest
<1>1. /\ DOMAIN c \subseteq Nat /\ i \in Nat
      /\ \A k \in DOMAIN c : /\ c[k].overtaken \subseteq Docs
                             /\ OmniSharp!Covers(c[k]) \subseteq Docs
  <2>1. \A k \in DOMAIN c : c[k] \in CodeChecks
      BY LenProperties
  <2>. QED BY <2>1, CheckFields, LenProperties
<1>2. /\ \A k \in DOMAIN Over(c, i) :
           /\ Was(k, i) \in DOMAIN c /\ Was(k, i) # i
           /\ Over(c, i)[k].target = c[Was(k, i)].target
           /\ Over(c, i)[k].found = c[Was(k, i)].found
           /\ Over(c, i)[k].rest = c[Was(k, i)].rest
           /\ Over(c, i)[k].closed = c[Was(k, i)].closed
           /\ OmniSharp!Covers(Over(c, i)[k]) = OmniSharp!Covers(c[Was(k, i)])
           /\ Over(c, i)[k].overtaken = IF Was(k, i) < i
                 THEN c[Was(k, i)].overtaken \cup OmniSharp!Covers(c[i])
                 ELSE c[Was(k, i)].overtaken
      /\ \A j \in DOMAIN c : j # i => \E k \in DOMAIN Over(c, i) : Was(k, i) = j
      /\ \A k \in DOMAIN Over(c, i), l \in DOMAIN Over(c, i) : k < l <=> Was(k, i) < Was(l, i)
    BY OverIs, Zenon
<1>3. \A k \in DOMAIN Over(c, i) : \A d \in Docs :
        /\ d \in c[Was(k, i)].overtaken => d \in Over(c, i)[k].overtaken
        /\ d \in Over(c, i)[k].overtaken =>
             d \in c[Was(k, i)].overtaken \/ (Was(k, i) < i /\ d \in OmniSharp!Covers(c[i]))
        /\ Was(k, i) < i /\ d \in OmniSharp!Covers(c[i]) => d \in Over(c, i)[k].overtaken
    BY <1>2
<1>4. OvertakenFirst(Over(c, i))
  <2>1. SUFFICES ASSUME NEW k \in DOMAIN Over(c, i), NEW l \in DOMAIN Over(c, i), k < l,
                        NEW d \in OmniSharp!Covers(Over(c, i)[k]) \cap OmniSharp!Covers(Over(c, i)[l]),
                        d \in Over(c, i)[l].overtaken
                 PROVE  d \in Over(c, i)[k].overtaken
      BY DEF OvertakenFirst
  <2>2. /\ Was(k, i) \in DOMAIN c /\ Was(l, i) \in DOMAIN c /\ Was(k, i) < Was(l, i) /\ d \in Docs
        /\ d \in OmniSharp!Covers(c[Was(k, i)]) \cap OmniSharp!Covers(c[Was(l, i)])
      BY <1>1, <1>2, <2>1
  <2>3. CASE d \in c[Was(l, i)].overtaken
      BY <1>3, <2>2, <2>3 DEF OvertakenFirst
  <2>4. CASE Was(l, i) < i /\ d \in OmniSharp!Covers(c[i])
      BY <1>1, <1>3, <2>2, <2>4
  <2>. QED BY <1>3, <2>1, <2>2, <2>3, <2>4
<1>5. ASSUME NEW d \in Docs, NEW contents \in OmniSharp!Contents, LastFinds(c, d, contents)
      PROVE  LastFinds(Over(c, i), d, contents)
  <2>1. SUFFICES ASSUME NEW k \in DOMAIN Over(c, i), d \in OmniSharp!Covers(Over(c, i)[k]),
                        d \notin Over(c, i)[k].overtaken,
                        \A l \in DOMAIN Over(c, i) : k < l => d \notin OmniSharp!Covers(Over(c, i)[l])
                 PROVE  /\ Over(c, i)[k].found[d] = contents
                        /\ Over(c, i)[k].target = Everything \/ ~Over(c, i)[k].closed
      BY DEF LastFinds
  <2>2. /\ Was(k, i) \in DOMAIN c /\ Was(k, i) # i /\ d \in OmniSharp!Covers(c[Was(k, i)])
        /\ d \notin c[Was(k, i)].overtaken
        /\ ~(Was(k, i) < i /\ d \in OmniSharp!Covers(c[i]))
      BY <1>2, <1>3, <2>1
  <2>3. ASSUME NEW j \in DOMAIN c, Was(k, i) < j PROVE d \notin OmniSharp!Covers(c[j])
    <3>1. CASE j = i
        BY <2>2, <2>3, <3>1
    <3>2. CASE j # i
      <4>1. PICK l \in DOMAIN Over(c, i) : Was(l, i) = j
          BY <1>2, <3>2
      <4>2. k < l
          BY <1>2, <2>3, <4>1
      <4>. QED BY <1>2, <2>1, <4>1, <4>2
    <3>. QED BY <3>1, <3>2
  <2>4. c[Was(k, i)].found[d] = contents /\ (c[Was(k, i)].target = Everything \/ ~c[Was(k, i)].closed)
      BY <1>5, <2>2, <2>3 DEF LastFinds
  <2>. QED BY <1>2, <2>4
<1>6. ASSUME NEW d \in Docs \ OmniSharp!Covers(c[i]), AllOvertaken(Over(c, i), d) PROVE AllOvertaken(c, d)
  <2>1. SUFFICES ASSUME NEW j \in DOMAIN c, d \in OmniSharp!Covers(c[j]) PROVE d \in c[j].overtaken
      BY DEF AllOvertaken
  <2>2. PICK k \in DOMAIN Over(c, i) : Was(k, i) = j
      BY <1>2, <1>6, <2>1
  <2>. QED BY <1>2, <1>3, <1>6, <2>1, <2>2 DEF AllOvertaken
<1>7. ASSUME NEW d \in OmniSharp!Covers(c[i]) \ c[i].overtaken, NEW contents \in OmniSharp!Contents,
             LastFinds(c, d, contents), AllOvertaken(Over(c, i), d)
      PROVE  c[i].found[d] = contents /\ (c[i].target = Everything \/ ~c[i].closed)
  <2>1. ASSUME NEW j \in DOMAIN c, i < j PROVE d \notin OmniSharp!Covers(c[j])
    <3>1. SUFFICES ASSUME d \in OmniSharp!Covers(c[j]) PROVE FALSE
        OBVIOUS
    <3>2. PICK k \in DOMAIN Over(c, i) : Was(k, i) = j
        BY <1>1, <1>2, <2>1
    <3>3. d \in Over(c, i)[k].overtaken /\ d \in Docs
        BY <1>1, <1>2, <1>7, <3>1, <3>2 DEF AllOvertaken
    <3>4. d \in c[j].overtaken
        BY <1>1, <1>3, <2>1, <3>2, <3>3
    <3>. QED BY <1>7, <2>1, <3>1, <3>4 DEF OvertakenFirst
  <2>. QED BY <1>7, <2>1 DEF LastFinds
<1>8. ASSUME NEW d \in OmniSharp!Covers(c[i]) \cap c[i].overtaken, AllOvertaken(Over(c, i), d)
      PROVE  AllOvertaken(c, d)
  <2>1. SUFFICES ASSUME NEW j \in DOMAIN c, d \in OmniSharp!Covers(c[j]) PROVE d \in c[j].overtaken
      BY DEF AllOvertaken
  <2>2. CASE j < i
      BY <1>8, <2>1, <2>2 DEF OvertakenFirst
  <2>3. CASE j = i
      BY <1>8, <2>3
  <2>4. CASE i < j
    <3>1. PICK k \in DOMAIN Over(c, i) : Was(k, i) = j
        BY <1>1, <1>2, <2>4
    <3>2. d \in Over(c, i)[k].overtaken /\ d \in Docs
        BY <1>1, <1>2, <1>8, <2>1, <3>1 DEF AllOvertaken
    <3>. QED BY <1>1, <1>3, <2>4, <3>1, <3>2
  <2>. QED BY <1>1, <2>1, <2>2, <2>3, <2>4
<1>9. ASSUME NEW d \in Docs, InTurn(c, d) PROVE InTurn(Over(c, i), d) \/ d \in c[i].rest
  <2>1. PICK j \in DOMAIN c : d \in c[j].rest
      BY <1>9 DEF InTurn
  <2>2. CASE j # i
    <3>1. PICK k \in DOMAIN Over(c, i) : Was(k, i) = j
        BY <1>2, <2>2
    <3>. QED BY <1>2, <2>1, <3>1 DEF InTurn
  <2>. QED BY <2>1, <2>2
<1>. QED BY <1>4, <1>5, <1>6, <1>7, <1>8, <1>9

\* The checks of a document that closes are marked; those of another are as they were.
LEMMA ClosedKeeps ==
    ASSUME NEW c \in Seq(CodeChecks), NEW d \in Docs, OvertakenFirst(c), NEW m,
           m = [i \in DOMAIN c |-> IF c[i].target = d THEN [c[i] EXCEPT !.closed = TRUE] ELSE c[i]]
    PROVE  /\ m \in Seq(CodeChecks) /\ Len(m) = Len(c)
           /\ \A i \in DOMAIN m : /\ i \in DOMAIN c /\ m[i].target = c[i].target
                                  /\ m[i].closed <=> c[i].closed \/ c[i].target = d
           /\ OvertakenFirst(m)
           /\ \A e \in Docs \ {d} :
                /\ \A contents \in OmniSharp!Contents : LastFinds(c, e, contents) => LastFinds(m, e, contents)
                /\ AllOvertaken(m, e) => AllOvertaken(c, e)
                /\ InTurn(c, e) => InTurn(m, e)
<1>1. DOMAIN m = DOMAIN c /\ DOMAIN c = 1 .. Len(c) /\ Len(c) \in Nat
    BY LenProperties
<1>2. ASSUME NEW i \in DOMAIN c
      PROVE  /\ m[i] \in CodeChecks
             /\ m[i].target = c[i].target /\ m[i].found = c[i].found /\ m[i].rest = c[i].rest
             /\ m[i].overtaken = c[i].overtaken /\ OmniSharp!Covers(m[i]) = OmniSharp!Covers(c[i])
             /\ m[i].closed <=> c[i].closed \/ c[i].target = d
  <2>1. c[i] \in CodeChecks
      BY LenProperties
  <2>2. m[i] = IF c[i].target = d THEN [c[i] EXCEPT !.closed = TRUE] ELSE c[i]
      OBVIOUS
  <2>3. /\ m[i] \in CodeChecks
        /\ m[i].target = c[i].target /\ m[i].found = c[i].found /\ m[i].rest = c[i].rest
        /\ m[i].overtaken = c[i].overtaken
        /\ m[i].closed <=> c[i].closed \/ c[i].target = d
      BY <2>1, <2>2 DEF CodeChecks
  <2>. QED BY <2>3 DEF OmniSharp!Covers
<1>3. m \in Seq(CodeChecks) /\ Len(m) = Len(c)
  <2>1. m = [i \in 1 .. Len(c) |-> m[i]]
      BY <1>1
  <2>2. \A i \in 1 .. Len(c) : m[i] \in CodeChecks
      BY <1>1, <1>2
  <2>3. m \in [1 .. Len(c) -> CodeChecks]
      BY <2>1, <2>2
  <2>. QED BY <1>1, <2>3
<1>4. OvertakenFirst(m)
    BY <1>1, <1>2 DEF OvertakenFirst
<1>5. ASSUME NEW e \in Docs \ {d}, NEW contents \in OmniSharp!Contents, LastFinds(c, e, contents)
      PROVE  LastFinds(m, e, contents)
  <2>1. SUFFICES ASSUME NEW i \in DOMAIN m, e \in OmniSharp!Covers(m[i]), e \notin m[i].overtaken,
                        \A j \in DOMAIN m : i < j => e \notin OmniSharp!Covers(m[j])
                 PROVE  m[i].found[e] = contents /\ (m[i].target = Everything \/ ~m[i].closed)
      BY DEF LastFinds
  <2>2. /\ e \in OmniSharp!Covers(c[i]) /\ e \notin c[i].overtaken
        /\ \A j \in DOMAIN c : i < j => e \notin OmniSharp!Covers(c[j])
      BY <1>1, <1>2, <2>1
  <2>3. c[i].found[e] = contents /\ (c[i].target = Everything \/ ~c[i].closed)
      BY <1>1, <1>5, <2>2 DEF LastFinds
  <2>4. c[i].target # Everything => c[i].target # d
      BY <2>2, <1>5 DEF OmniSharp!Covers
  <2>. QED BY <1>1, <1>2, <2>3, <2>4
<1>6. ASSUME NEW e \in Docs \ {d} PROVE AllOvertaken(m, e) => AllOvertaken(c, e)
    BY <1>1, <1>2 DEF AllOvertaken
<1>7. ASSUME NEW e \in Docs \ {d} PROVE InTurn(c, e) => InTurn(m, e)
    BY <1>1, <1>2 DEF InTurn
<1>. QED BY <1>1, <1>2, <1>3, <1>4, <1>5, <1>6, <1>7

-----------------------------------------------------------------------------
(* The check that is asked for next.                                         *)

\* One of those whose turn it is, or none where nothing is validated.
LEMMA AskedNext ==
    ASSUME NEW c \in Seq(CodeChecks), NEW rest \in SUBSET Docs, DiagnosticsTypes,
           NEW next \in OmniSharp!ValidateNext(rest)
    PROVE  \/ c \o next = c /\ (~OmniSharp!ShouldValidateFiles \/ rest = {})
           \/ /\ OmniSharp!ShouldValidateFiles
              /\ \E d \in rest : c \o next = Append(c, OmniSharp!Check(d, rest \ {d}))
<1>1. CASE OmniSharp!ShouldValidateFiles /\ rest # {}
  <2>1. PICK d \in rest : next = <<OmniSharp!Check(d, rest \ {d})>>
      BY <1>1 DEF OmniSharp!ValidateNext
  <2>2. OmniSharp!Check(d, rest \ {d}) \in CodeChecks
      BY CheckType
  <2>3. c \o next = Append(c, OmniSharp!Check(d, rest \ {d}))
      BY <2>1, <2>2, AppendIsConcat
  <2>. QED BY <1>1, <2>3
<1>2. CASE ~(OmniSharp!ShouldValidateFiles /\ rest # {})
  <2>1. next = <<>>
      BY <1>2 DEF OmniSharp!ValidateNext
  <2>. QED BY <1>2, <2>1, ConcatEmptySeq
<1>. QED BY <1>1, <1>2

\* What it finds is the text of a document that is not behind.
LEMMA AskedKeeps ==
    ASSUME DiagnosticsTypes, BufferIsText, NEW c \in Seq(CodeChecks), NEW rest \in SUBSET Docs,
           OvertakenFirst(c), NEW next \in OmniSharp!ValidateNext(rest)
    PROVE  /\ c \o next \in Seq(CodeChecks)
           /\ Len(c \o next) <= Len(c) + 1
           /\ OvertakenFirst(c \o next)
           /\ ClosedMarked(c) => ClosedMarked(c \o next)
           /\ \A e \in visible \ behind :
                /\ LastFinds(c, e, text[e]) => LastFinds(c \o next, e, text[e])
                /\ AllOvertaken(c \o next, e) => AllOvertaken(c, e)
                /\ InTurn(c, e) => InTurn(c \o next, e)
                /\ e \in rest /\ OmniSharp!ShouldValidateFiles =>
                     \/ InTurn(c \o next, e)
                     \/ LastFinds(c \o next, e, text[e]) /\ ~AllOvertaken(c \o next, e)
<1> DEFINE a == c \o next
<1>0. Len(c) \in Nat
    BY LenProperties
<1>1. CASE a = c /\ (~OmniSharp!ShouldValidateFiles \/ rest = {})
    BY <1>0, <1>1
<1>2. CASE /\ OmniSharp!ShouldValidateFiles
           /\ \E d \in rest : a = Append(c, OmniSharp!Check(d, rest \ {d}))
  <2>1. PICK d \in rest : a = Append(c, OmniSharp!Check(d, rest \ {d}))
      BY <1>2
  <2> DEFINE x == OmniSharp!Check(d, rest \ {d})
  <2>2. /\ x \in CodeChecks /\ x.target = d /\ x.found = buffer /\ x.rest = rest \ {d} /\ x.overtaken = {}
        /\ x.closed <=> d # Everything /\ d \notin opened
      BY CheckType
  <2>. HIDE DEF a, x
  <2>3. a = Append(c, x)
      BY <2>1 DEF x
  <2>4. OmniSharp!Covers(x) = {d}
      BY <2>2, BoundsAssumption DEF OmniSharp!Covers
  <2>5. a \in Seq(CodeChecks) /\ Len(a) <= Len(c) + 1
      BY <1>0, <2>2, <2>3, AppendProperties
  <2>6. OvertakenFirst(a)
      BY <2>2, <2>3, AppendedCheck
  <2>7. ClosedMarked(c) => ClosedMarked(a)
    <3>1. /\ DOMAIN a = 1 .. Len(c) + 1 /\ DOMAIN c = 1 .. Len(c)
          /\ \A i \in 1 .. Len(c) : a[i] = c[i]
          /\ a[Len(c) + 1] = x
      <4>1. a \in Seq(CodeChecks) /\ Len(a) = Len(c) + 1
          BY <2>2, <2>3, AppendProperties
      <4>. QED BY <2>2, <2>3, <4>1, AppendProperties, LenProperties
    <3>2. \A i \in DOMAIN a : i = Len(c) + 1 \/ (i \in DOMAIN c /\ a[i] = c[i])
        BY <1>0, <3>1
    <3>3. x.target \in Docs \ opened => x.closed
        BY <2>2, BoundsAssumption
    <3>. QED BY <3>1, <3>2, <3>3 DEF ClosedMarked
  <2>8. ASSUME NEW e \in visible \ behind
        PROVE  /\ LastFinds(c, e, text[e]) => LastFinds(a, e, text[e])
               /\ AllOvertaken(a, e) => AllOvertaken(c, e)
               /\ InTurn(c, e) => InTurn(a, e)
               /\ e \in rest => InTurn(a, e) \/ (LastFinds(a, e, text[e]) /\ ~AllOvertaken(a, e))
    <3>1. e \in Docs /\ e \in opened /\ text[e] \in OmniSharp!Contents /\ buffer[e] = text[e]
        BY <1>2, <2>8 DEF DiagnosticsTypes, BufferIsText, Shows, OmniSharp!ShouldValidateFiles
    <3>2. e = d => x.found[e] = text[e] /\ ~x.closed
        BY <2>2, <3>1
    <3>3. e = d => LastFinds(a, e, text[e]) /\ ~AllOvertaken(a, e)
        BY <2>2, <2>3, <2>4, <3>1, <3>2, AppendedCheck
    <3>4. e # d => (LastFinds(c, e, text[e]) => LastFinds(a, e, text[e])) /\ (e \in rest => InTurn(a, e))
        BY <2>2, <2>3, <2>4, <3>1, AppendedCheck
    <3>5. (AllOvertaken(a, e) => AllOvertaken(c, e)) /\ (InTurn(c, e) => InTurn(a, e))
        BY <2>2, <2>3, <3>1, AppendedCheck
    <3>. QED BY <3>3, <3>4, <3>5
  <2>. QED BY <2>5, <2>6, <2>7, <2>8 DEF a
<1>. QED BY <1>1, <1>2, AskedNext

\* The checks after one that ends.
LEMMA EndsIs ==
    ASSUME DiagnosticsTypes, NEW i \in DOMAIN checks, OmniSharp!Ends(i)
    PROVE  /\ checks[i] \in CodeChecks /\ checks[i].rest \in SUBSET Docs
           /\ OmniSharp!Covers(checks[i]) \subseteq Docs
           /\ Over(checks, i) \in Seq(CodeChecks)
           /\ \E next \in OmniSharp!ValidateNext(checks[i].rest) : checks' = Over(checks, i) \o next
  <1>1. checks \in Seq(CodeChecks)
      BY DEF DiagnosticsTypes
  <1>2. checks[i] \in CodeChecks
      BY <1>1, LenProperties
  <1>3. Over(checks, i) \in Seq(CodeChecks)
      BY <1>1, OverIs
  <1>4. \E next \in OmniSharp!ValidateNext(checks[i].rest) : checks' = Over(checks, i) \o next
      BY DEF OmniSharp!Ends, Over
  <1>. QED BY <1>2, <1>3, <1>4, CheckFields

-----------------------------------------------------------------------------
(* The steps.                                                                *)

\* What an event of an open document does besides.
LEMMA OpenOrChangeIs ==
    ASSUME NEW d, OmniSharp!OnDocumentOpenOrChange(d), DiagnosticsTypes
    PROVE  /\ current' \in {current, d}
           /\ allPending' \in BOOLEAN /\ (allPending => allPending')
           /\ running /\ ~analyzers => allPending'
    BY DEF OmniSharp!OnDocumentOpenOrChange, OmniSharp!DocumentOpenOrChange, DiagnosticsTypes

\* What the server is told of a buffer.
LEMMA UpdateBufferIs ==
    ASSUME NEW d \in Docs, NEW contents \in OmniSharp!Contents, NEW checked \in BOOLEAN,
           OmniSharp!UpdateBuffer(d, contents, checked), DiagnosticsTypes
    PROVE  /\ buffer' \in Shows /\ behind' \subseteq Docs /\ analysis' \in BOOLEAN
           /\ analysis => analysis'
           /\ running => /\ buffer' = [buffer EXCEPT ![d] = contents]
                         /\ behind \subseteq behind' \cup {d} /\ behind' \subseteq behind
                         /\ ~checked => behind' = behind
                         /\ analyzers => analysis'
           /\ ~running => behind' = behind \cup {d} /\ buffer' = buffer
    BY DEF OmniSharp!UpdateBuffer, DiagnosticsTypes, Shows

\* The other contents of a file are contents.
LEMMA OtherContents == \A c \in OmniSharp!Contents : OmniSharp!Other(c) \in OmniSharp!Contents
    BY DEF OmniSharp!Contents, OmniSharp!Other

\* Types are kept.
LEMMA NextDiagnosticsTypes ==
    ASSUME DiagnosticsTypes, BufferIsText, OvertakenFirst(checks), OmniSharp!Next
    PROVE  DiagnosticsTypes'
<1>1. /\ checks \in Seq(CodeChecks) /\ Len(checks) <= MaxAsked /\ Len(checks) \in Nat /\ MaxAsked \in Nat
      /\ running \in BOOLEAN /\ analyzers \in BOOLEAN /\ allPending \in BOOLEAN /\ analysis \in BOOLEAN
      /\ disk \in Shows /\ text \in Shows /\ buffer \in Shows /\ shown \in Shows
      /\ CodeChecks' = CodeChecks /\ Shows' = Shows
    BY BoundsAssumption, LenProperties DEF DiagnosticsTypes, CodeChecks, Shows, OmniSharp!Contents
<1>2. ASSUME NEW d \in Docs, OmniSharp!Open(d) PROVE DiagnosticsTypes'
    BY <1>1, <1>2, OpenOrChangeIs DEF OmniSharp!Open, DiagnosticsTypes
<1>3. ASSUME NEW d \in Docs, OmniSharp!Show(d) PROVE DiagnosticsTypes'
  <2>1. text[d] \in OmniSharp!Contents
      BY <1>1 DEF Shows
  <2>2. OmniSharp!UpdateBuffer(d, text[d], TRUE) /\ OmniSharp!OnDocumentOpenOrChange(d)
      BY <1>3 DEF OmniSharp!Show
  <2>3. buffer' \in Shows /\ behind' \subseteq Docs /\ analysis' \in BOOLEAN
      BY <2>1, <2>2, UpdateBufferIs
  <2>4. current' \in {current, d} /\ allPending' \in BOOLEAN
      BY <2>2, OpenOrChangeIs
  <2>. QED BY <1>1, <1>3, <2>3, <2>4 DEF OmniSharp!Show, DiagnosticsTypes
<1>4. ASSUME NEW d \in Docs, OmniSharp!Hide(d) PROVE DiagnosticsTypes'
    BY <1>1, <1>4 DEF OmniSharp!Hide, DiagnosticsTypes
<1>5. ASSUME NEW d \in Docs, OmniSharp!Close(d) PROVE DiagnosticsTypes'
  <2>1. checks' \in Seq(CodeChecks) /\ Len(checks') = Len(checks)
    <3>1. checks' = [i \in DOMAIN checks |->
              IF checks[i].target = d THEN [checks[i] EXCEPT !.closed = TRUE] ELSE checks[i]]
        BY <1>5 DEF OmniSharp!Close
    <3>. QED BY <1>1, <3>1, ClosedKeeps
  <2>2. shown' \in Shows
      BY <1>1, <1>5 DEF OmniSharp!Close, Shows, OmniSharp!Contents
  <2>3. over' \subseteq Docs /\ opened' \subseteq Docs /\ visible' \subseteq opened'
      BY <1>5 DEF OmniSharp!Close, DiagnosticsTypes
  <2>4. UNCHANGED <<running, analyzers, disk, text, buffer, restores, counts, current,
                    allPending, analysis, underWay, orphans, behind, unchecked>>
      BY <1>5 DEF OmniSharp!Close
  <2>. QED BY <1>1, <2>1, <2>2, <2>3, <2>4 DEF DiagnosticsTypes
<1>6. ASSUME NEW d \in Docs, OmniSharp!Change(d) PROVE DiagnosticsTypes'
  <2>1. OmniSharp!Other(text[d]) \in OmniSharp!Contents
      BY <1>1, OtherContents DEF Shows
  <2>2. OmniSharp!UpdateBuffer(d, OmniSharp!Other(text[d]), TRUE) /\ OmniSharp!OnDocumentOpenOrChange(d)
      BY <1>6 DEF OmniSharp!Change
  <2>3. buffer' \in Shows /\ behind' \subseteq Docs /\ analysis' \in BOOLEAN
      BY <2>1, <2>2, UpdateBufferIs
  <2>4. current' \in {current, d} /\ allPending' \in BOOLEAN
      BY <2>2, OpenOrChangeIs
  <2>5. text' \in Shows
      BY <1>1, <1>6, <2>1 DEF OmniSharp!Change, Shows
  <2>. QED BY <1>1, <1>6, <2>3, <2>4, <2>5 DEF OmniSharp!Change, DiagnosticsTypes
<1>7. ASSUME NEW d \in Docs, OmniSharp!DiskChanges(d) PROVE DiagnosticsTypes'
  <2>1. /\ text[d] \in OmniSharp!Contents /\ OmniSharp!Other(disk[d]) \in OmniSharp!Contents
        /\ OmniSharp!Other(text[d]) \in OmniSharp!Contents
      BY <1>1, OtherContents DEF Shows
  <2>2. PICK contents \in OmniSharp!Contents, checked \in BOOLEAN :
           OmniSharp!UpdateBuffer(d, contents, checked)
      BY <1>7, <2>1 DEF OmniSharp!DiskChanges
  <2>3. buffer' \in Shows /\ behind' \subseteq Docs /\ analysis' \in BOOLEAN
      BY <2>2, UpdateBufferIs
  <2>4. current' \in {current, d} /\ allPending' \in BOOLEAN
      BY <1>1, <1>7, OpenOrChangeIs DEF OmniSharp!DiskChanges
  <2>5. text' \in Shows /\ disk' \in Shows
      BY <1>1, <1>7, <2>1 DEF OmniSharp!DiskChanges, Shows
  <2>. QED BY <1>1, <1>7, <2>3, <2>4, <2>5 DEF OmniSharp!DiskChanges, DiagnosticsTypes
<1>8. ASSUME NEW p \in Projects, OmniSharp!ProjectChanges(p) PROVE DiagnosticsTypes'
  <2>1. allPending' \in BOOLEAN /\ over' \subseteq Docs
      BY <1>1, <1>8 DEF OmniSharp!ProjectChanges, OmniSharp!UpdateProjectFileCount, DiagnosticsTypes
  <2>2. counts' \in [Projects -> {0, 1}]
    <3>1. counts \in [Projects -> {0, 1}] /\ 1 - counts[p] \in {0, 1}
        BY DEF DiagnosticsTypes
    <3>2. counts' = [counts EXCEPT ![p] = 1 - @]
        BY <1>8 DEF OmniSharp!ProjectChanges, OmniSharp!UpdateProjectFileCount
    <3>. QED BY <3>1, <3>2
  <2>. QED BY <1>1, <1>8, <2>1, <2>2 DEF OmniSharp!ProjectChanges, DiagnosticsTypes
<1>9. CASE OmniSharp!ServerStarts
    BY <1>1, <1>9 DEF OmniSharp!ServerStarts, DiagnosticsTypes
<1>10. CASE OmniSharp!ServerStops
  <2>1. shown' \in Shows /\ checks' \in Seq(CodeChecks) /\ Len(checks') <= MaxAsked
      BY <1>1, <1>10 DEF OmniSharp!ServerStops, OmniSharp!NothingShown, Shows, OmniSharp!Contents
  <2>2. /\ orphans' \in Nat /\ underWay' = 0 /\ restores' = underWay' + orphans'
        /\ UNCHANGED <<analyzers, disk, text, buffer, opened, visible, counts, behind>>
        /\ running' = FALSE /\ current' = NoDoc /\ allPending' = FALSE /\ analysis' = FALSE
        /\ unchecked' = {} /\ over' = {}
      BY <1>10 DEF OmniSharp!ServerStops, DiagnosticsTypes
  <2>. QED BY <1>1, <2>1, <2>2 DEF DiagnosticsTypes
<1>11. CASE OmniSharp!BeforePackageRestore
    BY <1>1, <1>11 DEF OmniSharp!BeforePackageRestore, DiagnosticsTypes
<1>12. CASE OmniSharp!OnPackageRestore
    BY <1>1, <1>12 DEF OmniSharp!OnPackageRestore, DiagnosticsTypes
<1>13. CASE OmniSharp!BackgroundAnalysisFinishes
    BY <1>1, <1>13 DEF OmniSharp!BackgroundAnalysisFinishes, DiagnosticsTypes
<1>14. CASE OmniSharp!CurrentDocumentDue
  <2>1. PICK next \in OmniSharp!ValidateNext({current}) : checks' = checks \o next
      BY <1>14 DEF OmniSharp!CurrentDocumentDue
  <2>2. {current} \in SUBSET Docs /\ Len(checks) < MaxAsked
      BY <1>14 DEF OmniSharp!CurrentDocumentDue, DiagnosticsTypes
  <2>3. checks' \in Seq(CodeChecks) /\ Len(checks') <= Len(checks) + 1
      BY <1>1, <2>1, <2>2, AskedKeeps
  <2>4. Len(checks') <= MaxAsked
      BY <1>1, <2>2, <2>3, LenProperties
  <2>. QED BY <1>1, <1>14, <2>3, <2>4 DEF OmniSharp!CurrentDocumentDue, DiagnosticsTypes
<1>15. CASE OmniSharp!AllDue
  <2>1. Len(checks) < MaxAsked
      BY <1>15 DEF OmniSharp!AllDue
  <2>2. checks' \in Seq(CodeChecks) /\ Len(checks') <= Len(checks) + 1
    <3>1. CASE OmniSharp!ShouldValidateAll
      <4>1. checks' = checks \o <<OmniSharp!Check(Everything, {})>>
          BY <1>15, <3>1 DEF OmniSharp!AllDue
      <4>2. OmniSharp!Check(Everything, {}) \in CodeChecks
          BY CheckType
      <4>3. checks' = Append(checks, OmniSharp!Check(Everything, {}))
          BY <1>1, <4>1, <4>2, AppendIsConcat
      <4>. QED BY <1>1, <4>2, <4>3, AppendProperties
    <3>2. CASE ~OmniSharp!ShouldValidateAll
      <4>1. PICK next \in OmniSharp!ValidateNext(visible) : checks' = checks \o next
          BY <1>15, <3>2 DEF OmniSharp!AllDue
      <4>2. visible \in SUBSET Docs
          BY DEF DiagnosticsTypes
      <4>. QED BY <1>1, <4>1, <4>2, AskedKeeps
    <3>. QED BY <3>1, <3>2
  <2>3. Len(checks') <= MaxAsked
      BY <1>1, <2>1, <2>2, LenProperties
  <2>. QED BY <1>1, <1>15, <2>2, <2>3 DEF OmniSharp!AllDue, DiagnosticsTypes
<1>16. ASSUME NEW i \in DOMAIN checks, OmniSharp!Answered(i) \/ OmniSharp!Failed(i) PROVE DiagnosticsTypes'
  <2>1. OmniSharp!Ends(i)
      BY <1>16 DEF OmniSharp!Answered, OmniSharp!Failed
  <2>2. /\ checks[i] \in CodeChecks /\ checks[i].rest \in SUBSET Docs
        /\ OmniSharp!Covers(checks[i]) \subseteq Docs
      BY <2>1, EndsIs
  <2>3. PICK next \in OmniSharp!ValidateNext(checks[i].rest) : checks' = Over(checks, i) \o next
      BY <2>1, EndsIs
  <2>4. /\ Over(checks, i) \in Seq(CodeChecks) /\ Len(Over(checks, i)) = Len(checks) - 1
        /\ OvertakenFirst(Over(checks, i))
      BY <1>1, OverIs, OverKeeps
  <2>5. checks' \in Seq(CodeChecks) /\ Len(checks') <= (Len(checks) - 1) + 1
      BY <2>2, <2>3, <2>4, AskedKeeps
  <2>6. Len(checks') <= MaxAsked
      BY <1>1, <2>5, LenProperties
  <2>7. OmniSharp!Applied(checks[i]) \in Shows
      BY <1>1, <2>2 DEF OmniSharp!Applied, CodeChecks, Shows
  <2>8. shown' \in Shows /\ unchecked' \subseteq Docs /\ over' \subseteq Docs
      BY <1>1, <1>16, <2>2, <2>7 DEF OmniSharp!Answered, OmniSharp!Failed, DiagnosticsTypes
  <2>9. UNCHANGED <<running, analyzers, disk, text, buffer, opened, visible, restores, counts,
                    current, allPending, analysis, underWay, orphans, behind>>
      BY <1>16 DEF OmniSharp!Answered, OmniSharp!Failed
  <2>. QED BY <1>1, <2>5, <2>6, <2>8, <2>9 DEF DiagnosticsTypes
<1>. QED BY <1>2, <1>3, <1>4, <1>5, <1>6, <1>7, <1>8, <1>9, <1>10, <1>11, <1>12, <1>13, <1>14,
            <1>15, <1>16 DEF OmniSharp!Next

\* What the server knows is the text of a document that is not behind.
LEMMA NextBufferIsText ==
    ASSUME DiagnosticsTypes, BufferIsText, OmniSharp!Next
    PROVE  BufferIsText'
<1>1. /\ \A d \in Docs : text[d] \in OmniSharp!Contents /\ disk[d] \in OmniSharp!Contents
      /\ text \in Shows /\ buffer \in Shows /\ disk \in Shows
    BY DEF DiagnosticsTypes, Shows
<1>2. ASSUME NEW d \in Docs, NEW contents \in OmniSharp!Contents, NEW checked \in BOOLEAN,
             OmniSharp!UpdateBuffer(d, contents, checked), text' = [text EXCEPT ![d] = contents],
             running' = running
      PROVE  BufferIsText'
  <2>1. SUFFICES ASSUME running, NEW e \in Docs \ behind' PROVE buffer'[e] = text'[e]
      BY <1>2 DEF BufferIsText
  <2>2. buffer' = [buffer EXCEPT ![d] = contents] /\ behind \subseteq behind' \cup {d}
      BY <1>2, <2>1, UpdateBufferIs
  <2>3. CASE e = d
      BY <1>1, <1>2, <2>2, <2>3 DEF Shows
  <2>4. CASE e # d
    <3>1. e \in Docs \ behind /\ buffer'[e] = buffer[e] /\ text'[e] = text[e]
        BY <1>1, <1>2, <2>1, <2>2, <2>4 DEF Shows
    <3>. QED BY <2>1, <3>1 DEF BufferIsText
  <2>. QED BY <2>3, <2>4
<1>3. ASSUME NEW d \in Docs, OmniSharp!Show(d) PROVE BufferIsText'
  <2>1. OmniSharp!UpdateBuffer(d, text[d], TRUE) /\ text' = [text EXCEPT ![d] = text[d]] /\ running' = running
      BY <1>1, <1>3 DEF OmniSharp!Show, Shows
  <2>. QED BY <1>1, <1>2, <2>1
<1>4. ASSUME NEW d \in Docs, OmniSharp!Change(d) PROVE BufferIsText'
  <2>1. /\ OmniSharp!UpdateBuffer(d, OmniSharp!Other(text[d]), TRUE) /\ running' = running
        /\ text' = [text EXCEPT ![d] = OmniSharp!Other(text[d])]
      BY <1>4 DEF OmniSharp!Change
  <2>. QED BY <1>1, <1>2, <2>1, OtherContents
<1>5. ASSUME NEW d \in Docs, OmniSharp!DiskChanges(d) PROVE BufferIsText'
  <2>1. \/ /\ OmniSharp!UpdateBuffer(d, text[d], FALSE) /\ running' = running
           /\ text' = [text EXCEPT ![d] = text[d]]
        \/ /\ OmniSharp!UpdateBuffer(d, OmniSharp!Other(text[d]), TRUE) /\ running' = running
           /\ text' = [text EXCEPT ![d] = OmniSharp!Other(text[d])]
      BY <1>1, <1>5 DEF OmniSharp!DiskChanges, Shows
  <2>. QED BY <1>1, <1>2, <2>1, OtherContents
<1>6. CASE OmniSharp!ServerStarts
    BY <1>1, <1>6 DEF OmniSharp!ServerStarts, BufferIsText
<1>7. CASE OmniSharp!ServerStops
    BY <1>7 DEF OmniSharp!ServerStops, BufferIsText
<1>8. CASE UNCHANGED <<running, text, buffer, behind>>
    BY <1>8 DEF BufferIsText
<1>9. ASSUME NEW d \in Docs, OmniSharp!Open(d) \/ OmniSharp!Hide(d) \/ OmniSharp!Close(d)
      PROVE  UNCHANGED <<running, text, buffer, behind>>
    BY <1>9 DEF OmniSharp!Open, OmniSharp!Hide, OmniSharp!Close
<1>10. ASSUME NEW p \in Projects, OmniSharp!ProjectChanges(p)
       PROVE  UNCHANGED <<running, text, buffer, behind>>
    BY <1>10 DEF OmniSharp!ProjectChanges
<1>11. ASSUME \/ OmniSharp!BeforePackageRestore \/ OmniSharp!OnPackageRestore
              \/ OmniSharp!BackgroundAnalysisFinishes \/ OmniSharp!CurrentDocumentDue \/ OmniSharp!AllDue
       PROVE  UNCHANGED <<running, text, buffer, behind>>
    BY <1>11 DEF OmniSharp!BeforePackageRestore, OmniSharp!OnPackageRestore,
        OmniSharp!BackgroundAnalysisFinishes, OmniSharp!CurrentDocumentDue, OmniSharp!AllDue
<1>12. ASSUME NEW i \in DOMAIN checks, OmniSharp!Answered(i) \/ OmniSharp!Failed(i)
       PROVE  UNCHANGED <<running, text, buffer, behind>>
    BY <1>12 DEF OmniSharp!Answered, OmniSharp!Failed
<1>. QED BY <1>3, <1>4, <1>5, <1>6, <1>7, <1>8, <1>9, <1>10, <1>11, <1>12 DEF OmniSharp!Next

\* None is kept out while all are checked.
LEMMA NextNoneOver ==
    ASSUME DiagnosticsTypes, NoneOver, OmniSharp!Next
    PROVE  NoneOver'
<1> USE DEF NoneOver, OmniSharp!ShouldValidateAll, OmniSharp!ShouldValidateFiles
<1>1. restores \in Nat
    BY DEF DiagnosticsTypes
<1>2. ASSUME NEW d \in Docs, OmniSharp!Open(d) PROVE NoneOver'
    BY <1>2 DEF OmniSharp!Open, OmniSharp!IsOverFileLimit
<1>3. ASSUME NEW d \in Docs, OmniSharp!Close(d) PROVE NoneOver'
    BY <1>3 DEF OmniSharp!Close, OmniSharp!IsOverFileLimit
<1>4. ASSUME NEW d \in Docs, \/ OmniSharp!Show(d) \/ OmniSharp!Hide(d) \/ OmniSharp!Change(d)
                             \/ OmniSharp!DiskChanges(d)
      PROVE  UNCHANGED <<running, restores, counts, over>>
    BY <1>4 DEF OmniSharp!Show, OmniSharp!Hide, OmniSharp!Change, OmniSharp!DiskChanges
<1>5. ASSUME NEW p \in Projects, OmniSharp!ProjectChanges(p) PROVE NoneOver'
  <2>1. /\ running /\ running' = running /\ restores' = restores
        /\ over' = IF \A q \in Projects : q = p \/ counts[q] = 1 THEN {} ELSE over
        /\ counts' = [counts EXCEPT ![p] = 1 - @]
      BY <1>5 DEF OmniSharp!ProjectChanges, OmniSharp!UpdateProjectFileCount
  <2>2. CASE \A q \in Projects : q = p \/ counts[q] = 1
      BY <2>1, <2>2
  <2>3. CASE \E q \in Projects : q # p /\ counts[q] # 1
      BY <2>1, <2>3 DEF OmniSharp!IsOverFileLimit
  <2>. QED BY <2>2, <2>3
<1>6. CASE OmniSharp!ServerStarts
    BY <1>6 DEF OmniSharp!ServerStarts, OmniSharp!IsOverFileLimit
<1>7. CASE OmniSharp!ServerStops \/ OmniSharp!OnPackageRestore
    BY <1>7 DEF OmniSharp!ServerStops, OmniSharp!OnPackageRestore
<1>8. CASE OmniSharp!BeforePackageRestore
    BY <1>1, <1>8 DEF OmniSharp!BeforePackageRestore
<1>9. ASSUME \/ OmniSharp!BackgroundAnalysisFinishes \/ OmniSharp!CurrentDocumentDue \/ OmniSharp!AllDue
      PROVE  UNCHANGED <<running, restores, counts, over>>
    BY <1>9 DEF OmniSharp!BackgroundAnalysisFinishes, OmniSharp!CurrentDocumentDue, OmniSharp!AllDue
<1>10. ASSUME NEW i \in DOMAIN checks, OmniSharp!Answered(i) \/ OmniSharp!Failed(i)
       PROVE  UNCHANGED <<running, restores, counts>> /\ over' \in {{}, over}
    BY <1>10 DEF OmniSharp!Answered, OmniSharp!Failed
<1>11. ASSUME UNCHANGED <<running, restores, counts>>, over' \in {{}, over} PROVE NoneOver'
    BY <1>11 DEF OmniSharp!IsOverFileLimit
<1>. QED BY <1>2, <1>3, <1>4, <1>5, <1>6, <1>7, <1>8, <1>9, <1>10, <1>11 DEF OmniSharp!Next

\* A check of all files, of the text of those that are not behind.
LEMMA AllAsked ==
    ASSUME DiagnosticsTypes, BufferIsText, OvertakenFirst(checks), running,
           NEW next, next = <<OmniSharp!Check(Everything, {})>>
    PROVE  /\ OvertakenFirst(checks \o next)
           /\ ClosedMarked(checks) => ClosedMarked(checks \o next)
           /\ \A e \in visible \ behind :
                LastFinds(checks \o next, e, text[e]) /\ ~AllOvertaken(checks \o next, e)
<1> DEFINE x == OmniSharp!Check(Everything, {})
           a == checks \o next
<1>1. /\ x \in CodeChecks /\ x.target = Everything /\ x.found = buffer /\ x.overtaken = {}
      /\ checks \in Seq(CodeChecks) /\ Len(checks) \in Nat
    BY CheckType, LenProperties DEF DiagnosticsTypes
<1>2. a = Append(checks, x)
    BY <1>1, AppendIsConcat
<1>. HIDE DEF x, a
<1>3. OmniSharp!Covers(x) = Docs
    BY <1>1 DEF OmniSharp!Covers
<1>4. OvertakenFirst(a)
    BY <1>1, <1>2, AppendedCheck
<1>5. ClosedMarked(checks) => ClosedMarked(a)
  <2>1. /\ DOMAIN a = 1 .. Len(checks) + 1 /\ DOMAIN checks = 1 .. Len(checks)
        /\ \A i \in 1 .. Len(checks) : a[i] = checks[i]
        /\ a[Len(checks) + 1] = x
    <3>1. a \in Seq(CodeChecks) /\ Len(a) = Len(checks) + 1
        BY <1>1, <1>2, AppendProperties
    <3>. QED BY <1>1, <1>2, <3>1, AppendProperties, LenProperties
  <2>2. \A i \in DOMAIN a : i = Len(checks) + 1 \/ (i \in DOMAIN checks /\ a[i] = checks[i])
      BY <1>1, <2>1
  <2>3. x.target \notin Docs
      BY <1>1, BoundsAssumption
  <2>. QED BY <2>1, <2>2, <2>3 DEF ClosedMarked
<1>6. ASSUME NEW e \in visible \ behind PROVE LastFinds(a, e, text[e]) /\ ~AllOvertaken(a, e)
  <2>1. e \in Docs /\ text[e] \in OmniSharp!Contents /\ x.found[e] = text[e]
      BY <1>1, <1>6 DEF DiagnosticsTypes, BufferIsText, Shows
  <2>. QED BY <1>1, <1>2, <1>3, <2>1, AppendedCheck
<1>. QED BY <1>4, <1>5, <1>6 DEF a

\* Where a check was overtaken for a document, so are those before it that cover the document:
\* one more counts for all, one that ends overtakes all before it, and a server that stops has none.
LEMMA NextOvertakenFirst ==
    ASSUME DiagnosticsTypes, BufferIsText, OvertakenFirst(checks), OmniSharp!Next
    PROVE  OvertakenFirst(checks)'
<1>0. checks \in Seq(CodeChecks) /\ visible \in SUBSET Docs
    BY DEF DiagnosticsTypes
<1>1. OvertakenFirst(checks') => OvertakenFirst(checks)'
    BY DEF OvertakenFirst
<1>2. ASSUME NEW d \in Docs, OmniSharp!Close(d) PROVE OvertakenFirst(checks')
  <2>1. checks' = [i \in DOMAIN checks |->
            IF checks[i].target = d THEN [checks[i] EXCEPT !.closed = TRUE] ELSE checks[i]]
      BY <1>2 DEF OmniSharp!Close
  <2>. QED BY <1>0, <2>1, ClosedKeeps
<1>3. ASSUME NEW d \in Docs, \/ OmniSharp!Open(d) \/ OmniSharp!Show(d) \/ OmniSharp!Hide(d)
                             \/ OmniSharp!Change(d) \/ OmniSharp!DiskChanges(d)
      PROVE  checks' = checks
    BY <1>3 DEF OmniSharp!Open, OmniSharp!Show, OmniSharp!Hide, OmniSharp!Change, OmniSharp!DiskChanges
<1>4. ASSUME NEW p \in Projects, OmniSharp!ProjectChanges(p) PROVE checks' = checks
    BY <1>4 DEF OmniSharp!ProjectChanges
<1>5. ASSUME \/ OmniSharp!ServerStarts \/ OmniSharp!BeforePackageRestore \/ OmniSharp!OnPackageRestore
             \/ OmniSharp!BackgroundAnalysisFinishes
      PROVE  checks' = checks
    BY <1>5 DEF OmniSharp!ServerStarts, OmniSharp!BeforePackageRestore, OmniSharp!OnPackageRestore,
        OmniSharp!BackgroundAnalysisFinishes
<1>6. CASE OmniSharp!ServerStops
  <2>1. checks' = <<>>
      BY <1>6 DEF OmniSharp!ServerStops
  <2>. QED BY <1>1, <2>1 DEF OvertakenFirst
<1>7. CASE OmniSharp!CurrentDocumentDue
  <2>1. PICK next \in OmniSharp!ValidateNext({current}) : checks' = checks \o next
      BY <1>7 DEF OmniSharp!CurrentDocumentDue
  <2>2. {current} \in SUBSET Docs
      BY <1>7 DEF OmniSharp!CurrentDocumentDue, DiagnosticsTypes
  <2>. QED BY <1>0, <1>1, <2>1, <2>2, AskedKeeps
<1>8. CASE OmniSharp!AllDue
  <2>1. CASE OmniSharp!ShouldValidateAll
    <3>1. checks' = checks \o <<OmniSharp!Check(Everything, {})>> /\ running
        BY <1>8, <2>1 DEF OmniSharp!AllDue, OmniSharp!ShouldValidateAll, OmniSharp!ShouldValidateFiles
    <3>. QED BY <1>1, <3>1, AllAsked
  <2>2. CASE ~OmniSharp!ShouldValidateAll
    <3>1. PICK next \in OmniSharp!ValidateNext(visible) : checks' = checks \o next
        BY <1>8, <2>2 DEF OmniSharp!AllDue
    <3>. QED BY <1>0, <1>1, <3>1, AskedKeeps
  <2>. QED BY <2>1, <2>2
<1>9. ASSUME NEW i \in DOMAIN checks, OmniSharp!Answered(i) \/ OmniSharp!Failed(i)
      PROVE  OvertakenFirst(checks')
  <2>1. OmniSharp!Ends(i)
      BY <1>9 DEF OmniSharp!Answered, OmniSharp!Failed
  <2>2. checks[i].rest \in SUBSET Docs
      BY <2>1, EndsIs
  <2>3. PICK next \in OmniSharp!ValidateNext(checks[i].rest) : checks' = Over(checks, i) \o next
      BY <2>1, EndsIs
  <2>4. Over(checks, i) \in Seq(CodeChecks) /\ OvertakenFirst(Over(checks, i))
      BY <1>0, OverIs, OverKeeps
  <2>. QED BY <2>2, <2>3, <2>4, AskedKeeps
<1>. QED BY <1>1, <1>2, <1>3, <1>4, <1>5, <1>6, <1>7, <1>8, <1>9 DEF OmniSharp!Next

\* Nothing is added to a closed file.
LEMMA NextClosedClean ==
    ASSUME DiagnosticsTypes, BufferIsText, NoneOver, ClosedClean, OvertakenFirst(checks), OmniSharp!Next
    PROVE  ClosedClean'
<1>0. /\ checks \in Seq(CodeChecks) /\ visible \in SUBSET Docs /\ shown \in Shows
      /\ over \subseteq Docs
    BY DEF DiagnosticsTypes
<1>1. ASSUME opened \subseteq opened', over' \subseteq over, checks' = checks, shown' = shown
      PROVE  ClosedClean'
    BY <1>1 DEF ClosedClean, ClosedMarked
<1>2. ASSUME opened \subseteq opened', over' \subseteq over, ClosedMarked(checks'), shown' = shown
      PROVE  ClosedClean'
    BY <1>2 DEF ClosedClean, ClosedMarked
<1>3. ASSUME NEW d \in Docs, OmniSharp!Close(d) PROVE ClosedClean'
  <2>1. /\ checks' = [i \in DOMAIN checks |->
            IF checks[i].target = d THEN [checks[i] EXCEPT !.closed = TRUE] ELSE checks[i]]
        /\ opened' = opened \ {d}
        /\ \/ /\ running /\ ~OmniSharp!ShouldValidateAll
              /\ shown' = [shown EXCEPT ![d] = "clean"] /\ over' = over \cup {d}
           \/ ~(running /\ ~OmniSharp!ShouldValidateAll) /\ shown' = shown /\ over' = over
      BY <1>3 DEF OmniSharp!Close
  <2>2. \A i \in DOMAIN checks' : /\ i \in DOMAIN checks /\ checks'[i].target = checks[i].target
                                  /\ checks'[i].closed <=> checks[i].closed \/ checks[i].target = d
      BY <1>0, <2>1, ClosedKeeps
  <2>3. ClosedMarked(checks)'
      BY <2>1, <2>2 DEF ClosedMarked, ClosedClean
  <2>4. \A e \in over' \ opened' : shown'[e] = "clean"
    <3>1. CASE running /\ ~OmniSharp!ShouldValidateAll
        BY <1>0, <2>1, <3>1 DEF ClosedClean, Shows
    <3>2. CASE ~(running /\ ~OmniSharp!ShouldValidateAll)
        BY <2>1, <3>2 DEF NoneOver
    <3>. QED BY <3>1, <3>2
  <2>. QED BY <2>3, <2>4 DEF ClosedClean
<1>4. ASSUME NEW d \in Docs, \/ OmniSharp!Open(d) \/ OmniSharp!Show(d) \/ OmniSharp!Hide(d)
                             \/ OmniSharp!Change(d) \/ OmniSharp!DiskChanges(d)
      PROVE  opened \subseteq opened' /\ over' \subseteq over /\ checks' = checks /\ shown' = shown
    BY <1>4 DEF OmniSharp!Open, OmniSharp!Show, OmniSharp!Hide, OmniSharp!Change, OmniSharp!DiskChanges
<1>5. ASSUME NEW p \in Projects, OmniSharp!ProjectChanges(p)
      PROVE  opened \subseteq opened' /\ over' \subseteq over /\ checks' = checks /\ shown' = shown
    BY <1>5 DEF OmniSharp!ProjectChanges
<1>6. ASSUME \/ OmniSharp!ServerStarts \/ OmniSharp!BeforePackageRestore \/ OmniSharp!OnPackageRestore
             \/ OmniSharp!BackgroundAnalysisFinishes
      PROVE  opened \subseteq opened' /\ over' \subseteq over /\ checks' = checks /\ shown' = shown
    BY <1>6 DEF OmniSharp!ServerStarts, OmniSharp!BeforePackageRestore, OmniSharp!OnPackageRestore,
        OmniSharp!BackgroundAnalysisFinishes
<1>7. CASE OmniSharp!ServerStops
    BY <1>7 DEF OmniSharp!ServerStops, ClosedClean, ClosedMarked
<1>8. CASE OmniSharp!CurrentDocumentDue
  <2>1. PICK next \in OmniSharp!ValidateNext({current}) : checks' = checks \o next
      BY <1>8 DEF OmniSharp!CurrentDocumentDue
  <2>2. {current} \in SUBSET Docs
      BY <1>8 DEF OmniSharp!CurrentDocumentDue, DiagnosticsTypes
  <2>3. ClosedMarked(checks')
      BY <1>0, <2>1, <2>2, AskedKeeps DEF ClosedClean
  <2>. QED BY <1>2, <1>8, <2>3 DEF OmniSharp!CurrentDocumentDue
<1>9. CASE OmniSharp!AllDue
  <2>1. ClosedMarked(checks')
    <3>1. CASE OmniSharp!ShouldValidateAll
      <4>1. checks' = checks \o <<OmniSharp!Check(Everything, {})>> /\ running
          BY <1>9, <3>1 DEF OmniSharp!AllDue, OmniSharp!ShouldValidateAll, OmniSharp!ShouldValidateFiles
      <4>. QED BY <4>1, AllAsked DEF ClosedClean
    <3>2. CASE ~OmniSharp!ShouldValidateAll
      <4>1. PICK next \in OmniSharp!ValidateNext(visible) : checks' = checks \o next
          BY <1>9, <3>2 DEF OmniSharp!AllDue
      <4>. QED BY <1>0, <4>1, AskedKeeps DEF ClosedClean
    <3>. QED BY <3>1, <3>2
  <2>. QED BY <1>2, <1>9, <2>1 DEF OmniSharp!AllDue
<1>10. ASSUME NEW i \in DOMAIN checks, OmniSharp!Ends(i) PROVE ClosedMarked(checks')
  <2>1. checks[i].rest \in SUBSET Docs
      BY <1>10, EndsIs
  <2>2. PICK next \in OmniSharp!ValidateNext(checks[i].rest) : checks' = Over(checks, i) \o next
      BY <1>10, EndsIs
  <2>3. Over(checks, i) \in Seq(CodeChecks) /\ OvertakenFirst(Over(checks, i))
      BY <1>0, OverIs, OverKeeps
  <2>4. \A k \in DOMAIN Over(checks, i) :
           /\ Was(k, i) \in DOMAIN checks /\ Over(checks, i)[k].target = checks[Was(k, i)].target
           /\ Over(checks, i)[k].closed = checks[Was(k, i)].closed
    <3>1. \A k \in DOMAIN Over(checks, i) :
             /\ Was(k, i) \in DOMAIN checks /\ Was(k, i) # i
             /\ Over(checks, i)[k].target = checks[Was(k, i)].target
             /\ Over(checks, i)[k].found = checks[Was(k, i)].found
             /\ Over(checks, i)[k].rest = checks[Was(k, i)].rest
             /\ Over(checks, i)[k].closed = checks[Was(k, i)].closed
             /\ OmniSharp!Covers(Over(checks, i)[k]) = OmniSharp!Covers(checks[Was(k, i)])
             /\ Over(checks, i)[k].overtaken = IF Was(k, i) < i
                   THEN checks[Was(k, i)].overtaken \cup OmniSharp!Covers(checks[i])
                   ELSE checks[Was(k, i)].overtaken
        BY <1>0, OverIs, Zenon
    <3>. QED BY <3>1, Zenon
  <2>5. ClosedMarked(Over(checks, i))
      BY <2>4 DEF ClosedMarked, ClosedClean
  <2>. QED BY <2>1, <2>2, <2>3, <2>5, AskedKeeps
<1>11. ASSUME NEW i \in DOMAIN checks, OmniSharp!Failed(i) PROVE ClosedClean'
    BY <1>2, <1>10, <1>11 DEF OmniSharp!Failed
<1>12. ASSUME NEW i \in DOMAIN checks, OmniSharp!Answered(i) PROVE ClosedClean'
  <2>1. /\ shown' = OmniSharp!Applied(checks[i]) /\ opened' = opened /\ OmniSharp!Ends(i)
        /\ over' = IF checks[i].target = Everything THEN {} ELSE over
      BY <1>12 DEF OmniSharp!Answered
  <2>2. ClosedMarked(checks)'
      BY <1>10, <2>1 DEF ClosedMarked
  <2>3. checks[i] \in CodeChecks
      BY <2>1, EndsIs
  <2>4. checks[i].target \in Docs \cup {Everything} /\ checks[i].found \in Shows
      BY <2>3, CheckFields
  <2>5. ASSUME NEW e \in over' \ opened' PROVE shown'[e] = "clean"
    <3>1. /\ checks[i].target # Everything /\ e \in over \ opened /\ e \in Docs
          /\ ~OmniSharp!ShouldValidateAll
        BY <1>0, <2>1, <2>5 DEF NoneOver
    <3>2. shown[e] = "clean"
        BY <3>1 DEF ClosedClean
    <3>3. CASE checks[i].target = e
      <4>1. checks[i].closed
          BY <3>1, <3>3 DEF ClosedClean, ClosedMarked
      <4>2. checks[i].found[e] \in {"clean", "broken"}
          BY <2>4, <3>1 DEF Shows, OmniSharp!Contents
      <4>. QED BY <1>0, <2>1, <3>1, <3>2, <3>3, <4>1, <4>2 DEF OmniSharp!Applied, Shows
    <3>4. CASE checks[i].target # e
        BY <1>0, <2>1, <3>1, <3>2, <3>4 DEF OmniSharp!Applied, Shows
    <3>. QED BY <3>3, <3>4
  <2>. QED BY <2>2, <2>5 DEF ClosedClean
<1>. QED BY <1>1, <1>3, <1>4, <1>5, <1>6, <1>7, <1>8, <1>9, <1>11, <1>12 DEF OmniSharp!Next

\* A step that asks for no check of a document, and changes neither its text nor its entry,
\* leaves it as it was.
LEMMA Undisturbed ==
    ASSUME NEW e \in Docs, Comes(e) \/ Settled(e),
           UNCHANGED <<running, restores>>, allPending => allPending', analysis => analysis',
           text'[e] = text[e], shown'[e] = shown[e], e \in unchecked => e \in unchecked',
           LastFinds(checks, e, text[e]) => LastFinds(checks', e, text[e]),
           AllOvertaken(checks', e) => AllOvertaken(checks, e),
           InTurn(checks, e) => InTurn(checks', e)
    PROVE  (Comes(e) \/ Settled(e))'
<1>1. LastFinds(checks', e, text[e]) => LastFinds(checks, e, text[e])'
    BY DEF LastFinds, OmniSharp!Covers
<1>2. AllOvertaken(checks, e)' => AllOvertaken(checks', e)
    BY DEF AllOvertaken, OmniSharp!Covers
<1>3. InTurn(checks', e) => InTurn(checks, e)'
    BY DEF InTurn
<1>. QED BY <1>1, <1>2, <1>3 DEF Comes, Settled

\* The same of a step that leaves all checks alone.
LEMMA ChecksAlone ==
    ASSUME NEW e \in Docs, Comes(e) \/ Settled(e),
           UNCHANGED <<running, restores, checks, unchecked>>,
           allPending => allPending', analysis => analysis',
           text'[e] = text[e], shown'[e] = shown[e]
    PROVE  (Comes(e) \/ Settled(e))'
    BY Undisturbed

\* Where a check is still to be asked for after a step, or the last one asked for counts.
LEMMA Awaited ==
    ASSUME NEW e \in Docs,
           \/ allPending' \/ analysis' \/ restores' # 0 \/ ~running' \/ InTurn(checks', e)
           \/ LastFinds(checks', e, text'[e]) /\ ~AllOvertaken(checks', e)
    PROVE  (Comes(e) \/ Settled(e))'
<1>1. LastFinds(checks', e, text'[e]) => LastFinds(checks, e, text[e])'
    BY DEF LastFinds, OmniSharp!Covers
<1>2. AllOvertaken(checks, e)' => AllOvertaken(checks', e)
    BY DEF AllOvertaken, OmniSharp!Covers
<1>3. InTurn(checks', e) => InTurn(checks, e)'
    BY DEF InTurn
<1>. QED BY <1>1, <1>2, <1>3 DEF Comes, Settled

\* An edit has its document checked, where a server runs; the others are as they were.
LEMMA EditedForgetsNone ==
    ASSUME DiagnosticsTypes, NothingForgotten, NEW d \in Docs, NEW contents \in OmniSharp!Contents,
           OmniSharp!UpdateBuffer(d, contents, TRUE),
           \A e \in Docs \ {d} : text'[e] = text[e],
           visible' \subseteq visible \cup {d},
           \/ OmniSharp!OnDocumentOpenOrChange(d)
           \/ d \notin visible' /\ allPending' = allPending,
           UNCHANGED <<running, analyzers, shown, restores, checks, unchecked>>
    PROVE  NothingForgotten'
<1>1. SUFFICES ASSUME NEW e \in visible' \ behind' PROVE (Comes(e) \/ Settled(e))'
    BY DEF NothingForgotten
<1>2. /\ analysis => analysis'
      /\ running => /\ behind \subseteq behind' \cup {d}
                    /\ analyzers => analysis'
      /\ ~running => behind' = behind \cup {d}
    BY UpdateBufferIs
<1>3. /\ allPending => allPending'
      /\ d \in visible' /\ running /\ ~analyzers => allPending'
    BY OpenOrChangeIs
<1>4. e \in Docs
    BY <1>1 DEF DiagnosticsTypes
<1>5. CASE e = d
  <2>1. analysis' \/ allPending' \/ ~running'
      BY <1>1, <1>2, <1>3, <1>5
  <2>. QED BY <1>4, <2>1, Awaited
<1>6. CASE e # d
  <2>1. e \in visible \ behind
      BY <1>1, <1>2, <1>6
  <2>2. Comes(e) \/ Settled(e)
      BY <2>1 DEF NothingForgotten
  <2>. QED BY <1>2, <1>3, <1>4, <1>6, <2>2, ChecksAlone
<1>. QED BY <1>5, <1>6

\* What a check that ends leaves to come.
LEMMA EndsKeeps ==
    ASSUME DiagnosticsTypes, BufferIsText, OvertakenFirst(checks),
           NEW i \in DOMAIN checks, OmniSharp!Ends(i), NEW e \in visible \ behind
    PROVE  /\ LastFinds(checks, e, text[e]) => LastFinds(checks', e, text[e])
           /\ AllOvertaken(checks', e) => AllOvertaken(Over(checks, i), e)
           /\ InTurn(checks, e) =>
                \/ InTurn(checks', e) \/ ~running \/ restores # 0
                \/ LastFinds(checks', e, text[e]) /\ ~AllOvertaken(checks', e)
<1>0. checks \in Seq(CodeChecks) /\ e \in Docs /\ text[e] \in OmniSharp!Contents
    BY DEF DiagnosticsTypes, Shows
<1>1. checks[i].rest \in SUBSET Docs
    BY EndsIs
<1>2. PICK next \in OmniSharp!ValidateNext(checks[i].rest) : checks' = Over(checks, i) \o next
    BY EndsIs
<1>3. Over(checks, i) \in Seq(CodeChecks)
    BY <1>0, OverIs
<1>4. OvertakenFirst(Over(checks, i))
    BY <1>0, OverKeeps
<1>5. LastFinds(checks, e, text[e]) => LastFinds(Over(checks, i), e, text[e])
    BY <1>0, OverKeeps
<1>6. InTurn(checks, e) => InTurn(Over(checks, i), e) \/ e \in checks[i].rest
    BY <1>0, OverKeeps
<1>7. /\ LastFinds(Over(checks, i), e, text[e]) => LastFinds(checks', e, text[e])
      /\ AllOvertaken(checks', e) => AllOvertaken(Over(checks, i), e)
      /\ InTurn(Over(checks, i), e) => InTurn(checks', e)
      /\ e \in checks[i].rest /\ OmniSharp!ShouldValidateFiles =>
           \/ InTurn(checks', e)
           \/ LastFinds(checks', e, text[e]) /\ ~AllOvertaken(checks', e)
    BY <1>1, <1>2, <1>3, <1>4, AskedKeeps
<1>. QED BY <1>5, <1>6, <1>7 DEF OmniSharp!ShouldValidateFiles

\* The end of a check, by its answer or without, forgets none.
LEMMA EndsForgetsNone ==
    ASSUME DiagnosticsTypes, BufferIsText, OvertakenFirst(checks), NothingForgotten,
           NEW i \in DOMAIN checks, OmniSharp!Answered(i) \/ OmniSharp!Failed(i)
    PROVE  NothingForgotten'
<1>1. /\ OmniSharp!Ends(i)
      /\ UNCHANGED <<running, restores, text, visible, behind, allPending, analysis>>
      /\ \/ /\ shown' = OmniSharp!Applied(checks[i])
            /\ unchecked' = (unchecked \ OmniSharp!Covers(checks[i]))
                                \cup (OmniSharp!Covers(checks[i]) \cap checks[i].overtaken)
         \/ /\ shown' = shown
            /\ unchecked' = unchecked \cup (OmniSharp!Covers(checks[i]) \ checks[i].overtaken)
    BY DEF OmniSharp!Answered, OmniSharp!Failed
<1>2. SUFFICES ASSUME NEW e \in visible \ behind PROVE (Comes(e) \/ Settled(e))'
    BY <1>1 DEF NothingForgotten
<1>3. /\ e \in Docs /\ text[e] \in OmniSharp!Contents /\ shown \in Shows
      /\ checks \in Seq(CodeChecks)
    BY <1>2 DEF DiagnosticsTypes, Shows
<1>4. /\ LastFinds(checks, e, text[e]) => LastFinds(checks', e, text[e])
      /\ AllOvertaken(checks', e) => AllOvertaken(Over(checks, i), e)
      /\ InTurn(checks, e) =>
           \/ InTurn(checks', e) \/ ~running \/ restores # 0
           \/ LastFinds(checks', e, text[e]) /\ ~AllOvertaken(checks', e)
    BY <1>1, <1>2, EndsKeeps
<1>5. CASE Comes(e)
  <2>1. \/ allPending' \/ analysis' \/ restores' # 0 \/ ~running' \/ InTurn(checks', e)
        \/ LastFinds(checks', e, text'[e]) /\ ~AllOvertaken(checks', e)
      BY <1>1, <1>4, <1>5 DEF Comes
  <2>. QED BY <1>3, <2>1, Awaited
<1>6. CASE Settled(e)
  <2>1. /\ LastFinds(checks, e, text[e])
        /\ AllOvertaken(checks, e) /\ e \notin unchecked => shown[e] = text[e]
      BY <1>6 DEF Settled
  <2>2. checks[i] \in CodeChecks
      BY <1>1, EndsIs
  <2>3. checks[i].target \in Docs \cup {Everything} /\ checks[i].found \in Shows
      BY <2>2, CheckFields
  <2>4. ASSUME AllOvertaken(Over(checks, i), e), e \notin unchecked' PROVE shown'[e] = text[e]
    <3>1. CASE e \notin OmniSharp!Covers(checks[i])
      <4>1. AllOvertaken(checks, e)
          BY <1>3, <2>4, <3>1, OverKeeps
      <4>2. e \notin unchecked
          BY <1>1, <2>4, <3>1
      <4>3. shown'[e] = shown[e]
          BY <1>1, <1>3, <2>3, <3>1 DEF OmniSharp!Applied, OmniSharp!Covers, Shows
      <4>. QED BY <2>1, <4>1, <4>2, <4>3
    <3>2. CASE e \in OmniSharp!Covers(checks[i]) \ checks[i].overtaken
      <4>1. checks[i].found[e] = text[e] /\ (checks[i].target = Everything \/ ~checks[i].closed)
          BY <1>3, <2>1, <2>4, <3>2, OverKeeps
      <4>2. shown' = OmniSharp!Applied(checks[i])
          BY <1>1, <2>4, <3>2
      <4>3. checks[i].target # Everything => checks[i].target = e
          BY <3>2 DEF OmniSharp!Covers
      <4>. QED BY <1>3, <4>1, <4>2, <4>3 DEF OmniSharp!Applied, Shows
    <3>3. CASE e \in OmniSharp!Covers(checks[i]) \cap checks[i].overtaken
      <4>1. AllOvertaken(checks, e)
          BY <1>3, <2>4, <3>3, OverKeeps
      <4>2. e \notin unchecked /\ shown' = shown
          BY <1>1, <2>4, <3>3
      <4>. QED BY <2>1, <4>1, <4>2
    <3>. QED BY <3>1, <3>2, <3>3
  <2>5. LastFinds(checks, e, text[e])'
      BY <1>1, <1>4, <2>1 DEF LastFinds, OmniSharp!Covers
  <2>6. AllOvertaken(checks, e)' => AllOvertaken(checks', e)
      BY DEF AllOvertaken, OmniSharp!Covers
  <2>7. (AllOvertaken(checks, e) /\ e \notin unchecked => shown[e] = text[e])'
      BY <1>1, <1>4, <2>4, <2>6
  <2>. QED BY <2>5, <2>7 DEF Settled
<1>. QED BY <1>2, <1>5, <1>6 DEF NothingForgotten

\* No step forgets a document that an editor shows.
LEMMA NextNothingForgotten ==
    ASSUME DiagnosticsTypes, BufferIsText, OvertakenFirst(checks), NothingForgotten, OmniSharp!Next
    PROVE  NothingForgotten'
<1>0. /\ checks \in Seq(CodeChecks) /\ visible \in SUBSET Docs /\ restores \in Nat
      /\ \A d \in Docs : text[d] \in OmniSharp!Contents /\ disk[d] \in OmniSharp!Contents
      /\ text \in Shows /\ disk \in Shows /\ shown \in Shows /\ visible \subseteq opened
    BY DEF DiagnosticsTypes, Shows
<1>1. ASSUME UNCHANGED <<running, restores, checks, unchecked, text, shown, behind>>,
             visible' \subseteq visible, allPending => allPending', analysis => analysis'
      PROVE  NothingForgotten'
  <2>1. SUFFICES ASSUME NEW e \in visible' \ behind' PROVE (Comes(e) \/ Settled(e))'
      BY DEF NothingForgotten
  <2>2. e \in Docs /\ (Comes(e) \/ Settled(e))
      BY <1>0, <1>1, <2>1 DEF NothingForgotten
  <2>. QED BY <1>1, <2>2, ChecksAlone
<1>2. ASSUME \/ allPending' \/ analysis' \/ ~running' \/ restores' # 0 PROVE NothingForgotten'
    BY <1>2 DEF NothingForgotten, Comes
<1>3. ASSUME NEW d \in Docs, OmniSharp!Open(d) PROVE NothingForgotten'
  <2>1. OmniSharp!OnDocumentOpenOrChange(d)
      BY <1>3 DEF OmniSharp!Open
  <2>2. allPending => allPending'
      BY <2>1, OpenOrChangeIs
  <2>. QED BY <1>1, <1>3, <2>2 DEF OmniSharp!Open
<1>4. ASSUME NEW d \in Docs, OmniSharp!Show(d) PROVE NothingForgotten'
  <2>1. /\ OmniSharp!UpdateBuffer(d, text[d], TRUE) /\ OmniSharp!OnDocumentOpenOrChange(d)
        /\ visible' \subseteq visible \cup {d} /\ text' = text
        /\ UNCHANGED <<running, analyzers, shown, restores, checks, unchecked>>
      BY <1>4 DEF OmniSharp!Show
  <2>. QED BY <1>0, <2>1, EditedForgetsNone
<1>5. ASSUME NEW d \in Docs, OmniSharp!Hide(d) PROVE NothingForgotten'
    BY <1>1, <1>5 DEF OmniSharp!Hide
<1>6. ASSUME NEW d \in Docs, OmniSharp!Close(d) PROVE NothingForgotten'
  <2>1. /\ checks' = [i \in DOMAIN checks |->
              IF checks[i].target = d THEN [checks[i] EXCEPT !.closed = TRUE] ELSE checks[i]]
        /\ UNCHANGED <<running, text, visible, restores, allPending, analysis, behind, unchecked>>
        /\ d \notin visible
        /\ \A e \in Docs \ {d} : shown'[e] = shown[e]
      BY <1>0, <1>6 DEF OmniSharp!Close, Shows
  <2>2. SUFFICES ASSUME NEW e \in visible \ behind PROVE (Comes(e) \/ Settled(e))'
      BY <2>1 DEF NothingForgotten
  <2>3. e \in Docs \ {d} /\ text[e] \in OmniSharp!Contents /\ (Comes(e) \/ Settled(e))
      BY <1>0, <2>1, <2>2 DEF NothingForgotten
  <2>4. /\ LastFinds(checks, e, text[e]) => LastFinds(checks', e, text[e])
        /\ AllOvertaken(checks', e) => AllOvertaken(checks, e)
        /\ InTurn(checks, e) => InTurn(checks', e)
      BY <1>0, <2>1, <2>3, ClosedKeeps
  <2>. QED BY <2>1, <2>3, <2>4, Undisturbed
<1>7. ASSUME NEW d \in Docs, OmniSharp!Change(d) PROVE NothingForgotten'
  <2>1. /\ OmniSharp!UpdateBuffer(d, OmniSharp!Other(text[d]), TRUE) /\ OmniSharp!OnDocumentOpenOrChange(d)
        /\ visible' = visible /\ \A e \in Docs \ {d} : text'[e] = text[e]
        /\ UNCHANGED <<running, analyzers, shown, restores, checks, unchecked>>
      BY <1>0, <1>7 DEF OmniSharp!Change, Shows
  <2>2. OmniSharp!Other(text[d]) \in OmniSharp!Contents
      BY <1>0, OtherContents
  <2>. QED BY <2>1, <2>2, EditedForgetsNone
<1>8. ASSUME NEW d \in Docs, OmniSharp!DiskChanges(d) PROVE NothingForgotten'
  <2>0. UNCHANGED <<running, analyzers, visible, opened, shown, restores, checks, unchecked>>
      BY <1>8 DEF OmniSharp!DiskChanges
  <2>1. CASE OmniSharp!UpdateBuffer(d, text[d], FALSE) /\ UNCHANGED <<text, current, allPending>>
    <3>1. /\ analysis => analysis'
          /\ running => behind' = behind
        BY <1>0, <2>1, UpdateBufferIs
    <3>. QED BY <1>1, <1>2, <2>0, <2>1, <3>1
  <2>2. CASE /\ text' = [text EXCEPT ![d] = OmniSharp!Other(@)]
             /\ OmniSharp!UpdateBuffer(d, OmniSharp!Other(disk[d]), TRUE)
             /\ IF d \in opened THEN OmniSharp!OnDocumentOpenOrChange(d)
                ELSE UNCHANGED <<current, allPending>>
    <3>1. /\ \A e \in Docs \ {d} : text'[e] = text[e]
          /\ OmniSharp!Other(disk[d]) \in OmniSharp!Contents
        BY <1>0, <2>2, OtherContents DEF Shows
    <3>2. \/ OmniSharp!OnDocumentOpenOrChange(d)
          \/ d \notin visible' /\ allPending' = allPending
        BY <1>0, <2>0, <2>2
    <3>. QED BY <2>0, <2>2, <3>1, <3>2, EditedForgetsNone
  <2>. QED BY <1>8, <2>1, <2>2 DEF OmniSharp!DiskChanges
<1>9. ASSUME NEW p \in Projects, OmniSharp!ProjectChanges(p) PROVE NothingForgotten'
  <2>1. /\ UNCHANGED <<running, restores, checks, unchecked, text, shown, behind, visible, analysis>>
        /\ allPending' \in {allPending, running} /\ running
      BY <1>9 DEF OmniSharp!ProjectChanges, OmniSharp!UpdateProjectFileCount
  <2>. QED BY <1>1, <2>1
<1>10. CASE OmniSharp!ServerStarts
    BY <1>2, <1>10 DEF OmniSharp!ServerStarts, DiagnosticsTypes
<1>11. CASE OmniSharp!ServerStops
    BY <1>2, <1>11 DEF OmniSharp!ServerStops
<1>12. CASE OmniSharp!BeforePackageRestore
    BY <1>0, <1>2, <1>12 DEF OmniSharp!BeforePackageRestore
<1>13. CASE OmniSharp!OnPackageRestore \/ OmniSharp!BackgroundAnalysisFinishes
    BY <1>2, <1>13 DEF OmniSharp!OnPackageRestore, OmniSharp!BackgroundAnalysisFinishes
<1>14. CASE OmniSharp!CurrentDocumentDue
  <2>1. PICK next \in OmniSharp!ValidateNext({current}) : checks' = checks \o next
      BY <1>14 DEF OmniSharp!CurrentDocumentDue
  <2>2. /\ {current} \in SUBSET Docs
        /\ UNCHANGED <<running, restores, text, visible, shown, behind, unchecked, allPending, analysis>>
      BY <1>14 DEF OmniSharp!CurrentDocumentDue, DiagnosticsTypes
  <2>3. SUFFICES ASSUME NEW e \in visible \ behind PROVE (Comes(e) \/ Settled(e))'
      BY <2>2 DEF NothingForgotten
  <2>4. e \in Docs /\ (Comes(e) \/ Settled(e))
      BY <1>0, <2>3 DEF NothingForgotten
  <2>5. /\ LastFinds(checks, e, text[e]) => LastFinds(checks', e, text[e])
        /\ AllOvertaken(checks', e) => AllOvertaken(checks, e)
        /\ InTurn(checks, e) => InTurn(checks', e)
      BY <1>0, <2>1, <2>2, <2>3, AskedKeeps
  <2>. QED BY <2>2, <2>4, <2>5, Undisturbed
<1>15. CASE OmniSharp!AllDue
  <2>1. UNCHANGED <<running, restores, text, visible, behind>>
      BY <1>15 DEF OmniSharp!AllDue
  <2>2. SUFFICES ASSUME NEW e \in visible \ behind PROVE (Comes(e) \/ Settled(e))'
      BY <2>1 DEF NothingForgotten
  <2>3. e \in Docs
      BY <1>0, <2>2
  <2>4. CASE OmniSharp!ShouldValidateAll
    <3>1. /\ checks' = checks \o <<OmniSharp!Check(Everything, {})>> /\ running
        BY <1>15, <2>4 DEF OmniSharp!AllDue, OmniSharp!ShouldValidateAll, OmniSharp!ShouldValidateFiles
    <3>2. LastFinds(checks', e, text[e]) /\ ~AllOvertaken(checks', e)
        BY <2>2, <3>1, AllAsked
    <3>. QED BY <2>1, <2>3, <3>2, Awaited
  <2>5. CASE ~OmniSharp!ShouldValidateAll
    <3>1. PICK next \in OmniSharp!ValidateNext(visible) : checks' = checks \o next
        BY <1>15, <2>5 DEF OmniSharp!AllDue
    <3>2. OmniSharp!ShouldValidateFiles =>
             \/ InTurn(checks', e)
             \/ LastFinds(checks', e, text[e]) /\ ~AllOvertaken(checks', e)
        BY <1>0, <2>2, <3>1, AskedKeeps
    <3>3. \/ restores' # 0 \/ ~running' \/ InTurn(checks', e)
          \/ LastFinds(checks', e, text'[e]) /\ ~AllOvertaken(checks', e)
        BY <2>1, <3>2 DEF OmniSharp!ShouldValidateFiles
    <3>. QED BY <2>3, <3>3, Awaited
  <2>. QED BY <2>4, <2>5
<1>. QED BY <1>3, <1>4, <1>5, <1>6, <1>7, <1>8, <1>9, <1>10, <1>11, <1>12, <1>13, <1>14, <1>15,
            EndsForgetsNone DEF OmniSharp!Next

\* The invariant holds at the start.
LEMMA InitDiagnosticsInv == OmniSharp!Init => DiagnosticsInv
<1> SUFFICES ASSUME OmniSharp!Init PROVE DiagnosticsInv
    OBVIOUS
<1>1. /\ NoDoc \in Docs \cup {NoDoc} /\ MaxAsked \in Nat
      /\ OmniSharp!NothingShown \in Shows /\ [p \in Projects |-> 0] \in [Projects -> {0, 1}]
    BY BoundsAssumption DEF OmniSharp!NothingShown, OmniSharp!Contents, Shows
<1>2. DiagnosticsTypes
  <2>1. checks \in Seq(CodeChecks) /\ Len(checks) <= MaxAsked
      BY <1>1, EmptySeq DEF OmniSharp!Init
  <2>2. /\ running \in BOOLEAN /\ analyzers \in BOOLEAN /\ allPending \in BOOLEAN /\ analysis \in BOOLEAN
        /\ disk \in Shows /\ text \in Shows /\ buffer \in Shows /\ shown \in Shows
        /\ counts \in [Projects -> {0, 1}] /\ current \in Docs \cup {NoDoc}
      BY <1>1 DEF OmniSharp!Init
  <2>3. /\ opened \subseteq Docs /\ visible \subseteq opened
        /\ behind \subseteq Docs /\ unchecked \subseteq Docs /\ over \subseteq Docs
        /\ underWay \in Nat /\ orphans \in Nat /\ restores = underWay + orphans
      BY DEF OmniSharp!Init
  <2>. QED BY <2>1, <2>2, <2>3 DEF DiagnosticsTypes
<1>3. checks = <<>> /\ over = {} /\ visible = {} /\ text = buffer
    BY DEF OmniSharp!Init
<1>4. OvertakenFirst(checks) /\ ClosedMarked(checks)
    BY <1>3 DEF OvertakenFirst, ClosedMarked
<1>5. BufferIsText /\ NoneOver /\ ClosedClean /\ NothingForgotten
    BY <1>3, <1>4 DEF BufferIsText, NoneOver, ClosedClean, NothingForgotten
<1>. QED BY <1>2, <1>4, <1>5 DEF DiagnosticsInv

\* Every step keeps it.
LEMMA NextDiagnosticsInv == DiagnosticsInv /\ OmniSharp!Next => DiagnosticsInv'
    BY NextDiagnosticsTypes, NextBufferIsText, NextNoneOver, NextClosedClean, NextOvertakenFirst,
       NextNothingForgotten DEF DiagnosticsInv

\* It gives what is stated of the problems: a document that no check is under way for, nor still
\* to come, is settled.
LEMMA DiagnosticsInvFit == DiagnosticsInv => OmniSharp!DiagnosticsFit
<1> SUFFICES ASSUME DiagnosticsInv PROVE OmniSharp!DiagnosticsFit
    OBVIOUS
<1>1. OmniSharp!TypeOK
  <2>1. Len(checks) \in Nat /\ Len(checks) <= MaxAsked /\ MaxAsked \in Nat
      BY BoundsAssumption, LenProperties DEF DiagnosticsInv, DiagnosticsTypes
  <2>. QED BY <2>1 DEF DiagnosticsInv, DiagnosticsTypes, OmniSharp!TypeOK, Shows
<1>2. OmniSharp!QuietShowsText
  <2>1. SUFFICES ASSUME running, restores = 0, ~allPending, checks = <<>>, ~analysis,
                        NEW d \in visible \ (behind \cup unchecked)
                 PROVE  shown[d] = text[d]
      BY DEF OmniSharp!QuietShowsText, OmniSharp!ShouldValidateFiles
  <2>2. ~Comes(d) /\ AllOvertaken(checks, d)
      BY <2>1 DEF Comes, InTurn, AllOvertaken
  <2>. QED BY <2>1, <2>2 DEF DiagnosticsInv, NothingForgotten, Settled
<1>3. OmniSharp!ClosedStayEmpty
    BY DEF DiagnosticsInv, ClosedClean, OmniSharp!ClosedStayEmpty
<1>. QED BY <1>1, <1>2, <1>3 DEF OmniSharp!DiagnosticsFit

\* Once nothing is under way the problems of a document an editor shows are those of its text,
\* unless its edits did not reach the server or its last check failed or was answered before an
\* earlier one, and none are added to a file that was closed over the limit; documents that are no files show what the server gave
\* last, and nothing is kept of a closed one (diagnosticsProvider.ts:206-321,
\* virtualDocumentTracker.ts, sourceGeneratedDocumentProvider.ts).
THEOREM OmniSharpCorrect == WorkspaceSpec => []OmniSharpInStep
<1>1. WorkspaceInit => DiagnosticsInv /\ DocumentsInv
    BY InitDiagnosticsInv, InitDocumentsInv DEF WorkspaceInit
<1>2. DiagnosticsInv /\ UNCHANGED omniSharpVars => DiagnosticsInv'
  <2> SUFFICES ASSUME DiagnosticsInv, UNCHANGED omniSharpVars PROVE DiagnosticsInv'
      OBVIOUS
  <2>1. UNCHANGED <<running, analyzers, disk, text, buffer, opened, visible, shown, restores,
                    counts, current, allPending, checks, analysis, underWay, orphans, behind,
                    unchecked, over>>
      BY DEF omniSharpVars
  <2>2. (DiagnosticsTypes /\ BufferIsText /\ NoneOver)'
      BY <2>1 DEF DiagnosticsInv, DiagnosticsTypes, BufferIsText, NoneOver, CodeChecks, Shows,
          OmniSharp!Contents, OmniSharp!ShouldValidateAll, OmniSharp!ShouldValidateFiles,
          OmniSharp!IsOverFileLimit
  <2>3. (ClosedClean /\ OvertakenFirst(checks))'
      BY <2>1 DEF DiagnosticsInv, ClosedClean, ClosedMarked, OvertakenFirst, OmniSharp!Covers
  <2>4. NothingForgotten'
      BY <2>1 DEF DiagnosticsInv, NothingForgotten, Comes, InTurn, Settled, LastFinds,
          AllOvertaken, OmniSharp!Covers
  <2>. QED BY <2>2, <2>3, <2>4 DEF DiagnosticsInv
<1>3. DocumentsInv /\ UNCHANGED documentVars => DocumentsInv'
  <2> SUFFICES ASSUME DocumentsInv, UNCHANGED documentVars PROVE DocumentsInv'
      OBVIOUS
  <2>1. UNCHANGED <<documentKind, documentText, source, calls, known, responses, requests, given,
                    renavigated, crossed, lagging>>
      BY DEF documentVars
  <2>2. DocumentTypes'
      BY <2>1 DEF DocumentsInv, DocumentTypes, DocumentRequests, Documents!Infos, Documents!Deleted
  <2>3. (documentKind = "virtual" => VirtualInv)'
      BY <2>1 DEF DocumentsInv, VirtualInv, LastRequest, Documents!Asks, Documents!Closed
  <2>4. (documentKind = "generated" => GeneratedInv)'
      BY <2>1 DEF DocumentsInv, GeneratedInv, InfosOfOne, ContentAlone, ShownIsGiven, KeptOfOpen,
          Documents!Asks, Documents!Closed, Documents!Infos
  <2>5. (documentKind = "metadata" => MetadataInv)'
      BY <2>1 DEF DocumentsInv, MetadataInv, Documents!Asks, Documents!Deleted
  <2>. QED BY <2>1, <2>2, <2>3, <2>4, <2>5 DEF DocumentsInv
<1>4. [WorkspaceNext]_workspaceVars => /\ OmniSharp!Next \/ UNCHANGED omniSharpVars
                                       /\ Documents!Next \/ UNCHANGED documentVars
    BY DEF WorkspaceNext, workspaceVars
<1>5. DiagnosticsInv /\ DocumentsInv => OmniSharpInStep
    BY DiagnosticsInvFit, DocumentsInvFit DEF OmniSharpInStep
<1>. QED BY <1>1, <1>2, <1>3, <1>4, <1>5, NextDiagnosticsInv, NextDocumentsInv, PTL DEF WorkspaceSpec
================================================================================
