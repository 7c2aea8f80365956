------------------------ MODULE OmniSharpDiagnostics ------------------------
(***************************************************************************)
(* The problems OmniSharp finds, as the problems view shows them:          *)
(* features/diagnosticsProvider.ts, with the handlers that tell the server *)
(* of edits (features/changeForwarding.ts, features/fileOpenCloseProvider).*)
(*                                                                         *)
(* The contents of a file is "clean" or "broken"; what the view shows of   *)
(* it is what a check found, "clean" standing for no entry.  The advisor   *)
(* outlives the server, the provider is one of each start of it.  Timers   *)
(* end when they end: the pipe of documents keeps the last document only.  *)
(***************************************************************************)
EXTENDS Naturals, Sequences, FiniteSets, SequencesExt

CONSTANTS
    Docs,           \* C# files
    NoDoc,          \* is none of them, nor is
    Everything,     \* target of a check of all files
    Projects,       \* their files count against the limit of one
    MaxEvents,      \* bounds, in Nat: events besides timers and answers,
    MaxAsked        \* and checks under way

VARIABLES
    running,        \* OmniSharp is
    analyzers,      \* _analyzersEnabled
    disk, text,     \* contents of a file, and of its document in the editor
    buffer,         \* contents the server knows
    opened, visible,
    shown,          \* _diagnostics
    restores,       \* _packageRestoreCounter
    counts,         \* _projectSourceFileCounts
    current,        \* what _validateCurrentDocumentPipe holds
    all,            \* _validateAllPipe holds something
    checks,         \* codeCheck requests under way, in the order they were made
    analysis,       \* the server analyses in the background
    underWay,       \* package restores of the server
    orphans,        \* ghost: restores that ended with their server
    behind,         \* ghost: documents whose edits did not reach the server, or by a
                    \* save alone, which has nothing checked
    unchecked,      \* ghost: documents whose last check failed, or was answered before an earlier
    over,           \* ghost: closed files a check of one document may not add
    events

diagnosticsVars == <<running, analyzers, disk, text, buffer, opened, visible, shown, restores,
    counts, current, all, checks, analysis, underWay, orphans, behind, unchecked,
    over, events>>

Contents == {"clean", "broken"}
Other(c) == IF c = "clean" THEN "broken" ELSE "clean"
NothingShown == [d \in Docs |-> "clean"]

-----------------------------------------------------------------------------
(* The advisor.                                                              *)

\* The limit is one file; a project has none or one.
IsOverFileLimit == \A p \in Projects : counts[p] = 1

ShouldValidateFiles == running /\ restores = 0
ShouldValidateAll == ShouldValidateFiles /\ ~IsOverFileLimit

UpdateProjectFileCount(p) ==
    /\ counts' = [counts EXCEPT ![p] = 1 - @]
    \* onProjectAdded and onProjectRemoved tell the advisor alone
    /\ all' \in {all, running}

-----------------------------------------------------------------------------
(* Events of the editor.                                                     *)

DocumentOpenOrChange(d) ==
    /\ current' = d
    /\ all' = (all \/ ~analyzers)

\* The handlers are of the provider: none is there without a server.
OnDocumentOpenOrChange(d) ==
    IF running THEN DocumentOpenOrChange(d) ELSE UNCHANGED <<current, all>>

\* forwardDocumentChanges: nothing is sent to a server that does not run.
UpdateBuffer(d, contents, checked) ==
    IF running
    THEN /\ buffer' = [buffer EXCEPT ![d] = contents]
         /\ behind' = IF checked THEN behind \ {d} ELSE behind
         /\ analysis' = (analysis \/ analyzers)
    ELSE /\ behind' = behind \cup {d}
         /\ UNCHANGED <<buffer, analysis>>

Event == events < MaxEvents /\ events' = events + 1

\* A document opens, with fileOpen to the server.
Open(d) ==
    /\ Event /\ d \notin opened
    /\ opened' = opened \cup {d}
    /\ OnDocumentOpenOrChange(d)
    /\ over' = over \ {d}
    /\ UNCHANGED <<running, analyzers, disk, text, buffer, visible, shown, restores, counts,
                   checks, analysis, underWay, orphans, behind, unchecked>>

\* Its editor becomes the active one, and the server is sent its buffer.
Show(d) ==
    /\ Event /\ d \in opened
    /\ visible' = visible \cup {d}
    /\ UpdateBuffer(d, text[d], TRUE)
    /\ OnDocumentOpenOrChange(d)
    /\ UNCHANGED <<running, analyzers, disk, text, opened, shown, restores, counts, checks,
                   underWay, orphans, unchecked, over>>

Hide(d) ==
    /\ Event /\ d \in visible
    /\ visible' = visible \ {d}
    /\ UNCHANGED <<running, analyzers, disk, text, buffer, opened, shown, restores, counts,
                   current, all, checks, analysis, underWay, orphans, behind, unchecked, over>>

\* A document without unsaved changes closes: over the limit its entry goes.
Close(d) ==
    /\ Event /\ d \in opened \ visible /\ text[d] = disk[d]
    /\ opened' = opened \ {d}
    /\ shown' = IF running /\ ~ShouldValidateAll THEN [shown EXCEPT ![d] = "clean"] ELSE shown
    /\ over' = IF running /\ ~ShouldValidateAll THEN over \cup {d} ELSE over
    /\ checks' = [i \in DOMAIN checks |->
                    IF checks[i].target = d THEN [checks[i] EXCEPT !.closed = TRUE] ELSE checks[i]]
    /\ UNCHANGED <<running, analyzers, disk, text, buffer, visible, restores, counts, current,
                   all, analysis, underWay, orphans, behind, unchecked>>

Change(d) ==
    /\ Event /\ d \in opened
    /\ text' = [text EXCEPT ![d] = Other(@)]
    /\ UpdateBuffer(d, Other(text[d]), TRUE)
    /\ OnDocumentOpenOrChange(d)
    /\ UNCHANGED <<running, analyzers, disk, opened, visible, shown, restores, counts, checks,
                   underWay, orphans, unchecked, over>>

\* A file is saved, or changed by others while its document has no changes of its own:
\* forwardFileChanges has the server read it, and the editor reads the document.
DiskChanges(d) ==
    /\ Event
    /\ \/ d \in opened /\ text[d] # disk[d] /\ disk' = [disk EXCEPT ![d] = text[d]]
          /\ UpdateBuffer(d, text[d], FALSE) /\ UNCHANGED <<text, current, all>>
       \/ text[d] = disk[d] /\ disk' = [disk EXCEPT ![d] = Other(@)]
          /\ text' = [text EXCEPT ![d] = Other(@)]
          /\ UpdateBuffer(d, Other(disk[d]), TRUE)
          /\ IF d \in opened THEN OnDocumentOpenOrChange(d)
             ELSE UNCHANGED <<current, all>>
    /\ UNCHANGED <<running, analyzers, opened, visible, shown, restores, counts, checks,
                   underWay, orphans, unchecked, over>>

-----------------------------------------------------------------------------
(* Events of the server.                                                     *)

\* It reads the files; the documents an editor shows are opened with fileOpen, but no
\* buffer is sent.
ServerStarts ==
    /\ Event /\ ~running
    /\ running' = TRUE
    /\ buffer' = disk
    /\ behind' = {d \in Docs : text[d] # disk[d]}
    /\ analysis' = analyzers
    /\ all' = ~analyzers        \* onProjectChange, as its projects load
    /\ UNCHANGED <<analyzers, disk, text, opened, visible, shown, restores, counts, current,
                   checks, underWay, orphans, unchecked, over>>

\* onServerStop disposes the provider and its collection; the advisor stays.
ServerStops ==
    /\ Event /\ running
    /\ running' = FALSE
    /\ shown' = NothingShown
    /\ current' = NoDoc /\ all' = FALSE /\ checks' = <<>> /\ analysis' = FALSE
    /\ underWay' = 0 /\ orphans' = orphans + underWay
    /\ unchecked' = {} /\ over' = {}
    /\ UNCHANGED <<analyzers, disk, text, buffer, opened, visible, restores, counts, behind>>

ProjectChanges(p) ==
    /\ Event /\ running
    /\ UpdateProjectFileCount(p)
    /\ over' = IF \A q \in Projects : q = p \/ counts[q] = 1 THEN {} ELSE over
    /\ UNCHANGED <<running, analyzers, disk, text, buffer, opened, visible, shown, restores,
                   current, checks, analysis, underWay, orphans, behind, unchecked>>

BeforePackageRestore ==
    /\ Event /\ running
    /\ underWay' = underWay + 1 /\ restores' = restores + 1
    /\ UNCHANGED <<running, analyzers, disk, text, buffer, opened, visible, shown, counts,
                   current, all, checks, analysis, orphans, behind, unchecked, over>>

OnPackageRestore ==
    /\ running /\ underWay > 0
    /\ underWay' = underWay - 1 /\ restores' = restores - 1
    /\ all' = TRUE
    /\ over' = {}
    /\ UNCHANGED <<running, analyzers, disk, text, buffer, opened, visible, shown, counts,
                   current, checks, analysis, orphans, behind, unchecked, events>>

\* _onBackgroundAnalysis: "Finished" with no file left.
BackgroundAnalysisFinishes ==
    /\ analysis
    /\ analysis' = FALSE /\ all' = TRUE
    /\ UNCHANGED <<running, analyzers, disk, text, buffer, opened, visible, shown, restores,
                   counts, current, checks, underWay, orphans, behind, unchecked,
                   over, events>>

-----------------------------------------------------------------------------
(* Checks.                                                                   *)

Check(target, rest) ==
    [target |-> target, found |-> buffer, rest |-> rest, overtaken |-> {},
     closed |-> target # Everything /\ target \notin opened]

\* _validateDocument, for the next of the documents in its turn.
ValidateNext(rest) ==
    IF ShouldValidateFiles /\ rest # {}
    THEN {<<Check(d, rest \ {d})>> : d \in rest}
    ELSE {<<>>}

\* 750 ms after the last event of a document.
CurrentDocumentDue ==
    /\ current # NoDoc /\ Len(checks) < MaxAsked
    /\ \E next \in ValidateNext({current}) : checks' = checks \o next
    /\ current' = NoDoc
    /\ UNCHANGED <<running, analyzers, disk, text, buffer, opened, visible, shown, restores,
                   counts, all, analysis, underWay, orphans, behind, unchecked,
                   over, events>>

\* 3 s after the last event of the workspace.
AllDue ==
    /\ all /\ Len(checks) < MaxAsked
    /\ \E next \in (IF ShouldValidateAll THEN {<<Check(Everything, {})>>} ELSE ValidateNext(visible)) :
          checks' = checks \o next
    /\ all' = FALSE
    /\ UNCHANGED <<running, analyzers, disk, text, buffer, opened, visible, shown, restores,
                   counts, current, analysis, underWay, orphans, behind, unchecked,
                   over, events>>

Covers(c) == IF c.target = Everything THEN Docs ELSE {c.target}

\* The check after the one that ends, and the documents of it that earlier ones still cover.
Ends(i) ==
    \E next \in ValidateNext(checks[i].rest) :
        checks' = RemoveAt([j \in DOMAIN checks |->
                                IF j < i THEN [checks[j] EXCEPT !.overtaken = @ \cup Covers(checks[i])]
                                ELSE checks[j]], i)
                  \o next

\* Mutant: the document is not looked for after the answer.
AppliedAnyway(c) ==
    IF c.target = Everything THEN c.found
    ELSE [shown EXCEPT ![c.target] = c.found[c.target]]

\* The answer of a check: problems of a document that closed meanwhile are dropped, over
\* the limit.
Applied(c) ==
    IF c.target = Everything THEN c.found
    ELSE IF c.found[c.target] = "broken" /\ ~ShouldValidateAll /\ c.closed THEN shown
    ELSE [shown EXCEPT ![c.target] = c.found[c.target]]

Answered(i) ==
    /\ shown' = Applied(checks[i])
    /\ unchecked' = (unchecked \ Covers(checks[i])) \cup (Covers(checks[i]) \cap checks[i].overtaken)
    /\ over' = IF checks[i].target = Everything THEN {} ELSE over
    /\ Ends(i)
    /\ UNCHANGED <<running, analyzers, disk, text, buffer, opened, visible, restores, counts,
                   current, all, analysis, underWay, orphans, behind, events>>

\* A request fails: its error is dropped, and the next document has its turn.
Failed(i) ==
    /\ unchecked' = unchecked \cup (Covers(checks[i]) \ checks[i].overtaken)
    /\ Ends(i)
    /\ UNCHANGED <<running, analyzers, disk, text, buffer, opened, visible, shown, restores,
                   counts, current, all, analysis, underWay, orphans, behind, over,
                   events>>

-----------------------------------------------------------------------------
Init ==
    /\ running = TRUE /\ analyzers \in BOOLEAN
    /\ disk = NothingShown /\ text = disk /\ buffer = disk
    /\ opened = {} /\ visible = {} /\ shown = NothingShown
    /\ restores = 0 /\ counts = [p \in Projects |-> 0]
    /\ current = NoDoc /\ all = FALSE /\ checks = <<>> /\ analysis = FALSE
    /\ underWay = 0 /\ orphans = 0
    /\ behind = {} /\ unchecked = {} /\ over = {}
    /\ events = 0

Next ==
    \/ \E d \in Docs : Open(d) \/ Show(d) \/ Hide(d) \/ Close(d) \/ Change(d) \/ DiskChanges(d)
    \/ \E p \in Projects : ProjectChanges(p)
    \/ ServerStarts \/ ServerStops \/ BeforePackageRestore \/ OnPackageRestore
    \/ BackgroundAnalysisFinishes \/ CurrentDocumentDue \/ AllDue
    \/ \E i \in DOMAIN checks : Answered(i) \/ Failed(i)

Spec == Init /\ [][Next]_diagnosticsVars

-----------------------------------------------------------------------------
TypeOK ==
    /\ shown \in [Docs -> Contents] /\ visible \subseteq opened
    /\ current \in Docs \cup {NoDoc} /\ Len(checks) <= MaxAsked + 1
    /\ restores = underWay + orphans

\* With validation on, nothing due and no check under way, the problems of a document an
\* editor shows are those of its text: the timer that keeps the last document only, and the
\* restores and starts of the server in between, lose nothing
\* (diagnosticsProvider.ts:148-184, 213-286).  Three documents are excepted: one no editor
\* shows, one behind, and one whose last check failed or was answered before an earlier check
\* of it (unchecked).  The code asks for no further check of such a one, and applies answers
\* as they come: the later of two replaces the earlier though its question is older.
QuietShowsText ==
    (/\ ShouldValidateFiles
     /\ current = NoDoc /\ ~all /\ checks = <<>> /\ ~analysis) =>
        \A d \in visible \ (behind \cup unchecked) :
            shown[d] = text[d]

\* "If we're over the file limit and the file shouldn't have diagnostics, don't add
\* them. This can happen if a file is opened then immediately closed"
\* (diagnosticsProvider.ts:264-272).
ClosedStayEmpty == \A d \in over \ opened : ~ShouldValidateAll => shown[d] = "clean"

DiagnosticsFit == TypeOK /\ QuietShowsText /\ ClosedStayEmpty
=============================================================================
