----------------------------- MODULE ProjectContext -----------------------------
(***************************************************************************)
(* Which of several projects a document is seen through:                   *)
(* ProjectContextService (lsptoolshost/projectContext/                     *)
(* projectContextService.ts), the changeProjectContext command, the status *)
(* item that shows the last event of the service, and the notifier that    *)
(* warns about a miscellaneous file.                                       *)
(*                                                                         *)
(* The language server answers a query of a document with a list           *)
(* [key, n, default, misc]: n contexts, known by the key and their index.  *)
(* Every refresh takes a new cancellation source, here a number: the token *)
(* of a query is cancelled when its number is not the present one.         *)
(***************************************************************************)
EXTENDS Naturals, FiniteSets

CONSTANTS
    Docs,           \* the relevant documents (C# and Razor files)
    NoDoc,          \* another kind of editor, or none
    Keys,           \* the context keys the server uses
    NoKey,
    Lists,          \* the lists the server answers with
    MaxRefreshes,   \* bound: refreshes of a relevant document
    MaxCommands,    \* bound: changeProjectContext commands
    QuickStat       \* a file system answers before the next verified event

ASSUME ContextAssumption ==
    /\ IsFiniteSet(Docs) /\ NoDoc \notin Docs /\ NoKey \notin Keys
    /\ Lists \subseteq [key : Keys, n : Nat \ {0}, default : Nat \ {0}, misc : BOOLEAN]
    /\ \A l \in Lists : l.default <= l.n
    /\ MaxRefreshes \in Nat /\ MaxCommands \in Nat /\ QuickStat \in BOOLEAN

VARIABLES
    active,     \* the document of the active editor
    server,     \* "stopped", "started" or "complete" (projects initialized)
    source,     \* the number of the present cancellation source
    uriKey,     \* _uriToContextKeyMap
    context,    \* _keyToActiveProjectContextMap: an index, 0 when absent
    refCount,   \* _contextKeyToRefCountMap, 0 when absent
    queries,    \* queries of refresh() that await their answer
    asked,      \* documents of changeProjectContext queries, by command number
    picks,      \* lists shown in the quick pick
    commands,   \* commands begun
    timers,     \* the verification timeouts that have not fired
    shown,      \* the last event
    stats,      \* events whose file the notifier awaits a stat of
    notified,   \* NotifiedDocuments
    toasts      \* warnings shown for each document

cacheVars == <<uriKey, context, refCount>>
commandVars == <<asked, picks, commands>>
notifierVars == <<stats, notified, toasts>>
vars == <<active, server, source, cacheVars, queries, commandVars, timers, shown, notifierVars>>

Sources == 0 .. MaxRefreshes

Event(d, k, i, verified, misc, more) ==
    [doc |-> d, key |-> k, index |-> i, verified |-> verified, misc |-> misc, more |-> more]

\* The event of a document without a list: _emptyProjectContext.
Empty(d) == Event(d, NoKey, 0, FALSE, FALSE, FALSE)

Init ==
    /\ active \in Docs \cup {NoDoc}
    /\ server = "stopped"
    /\ source = 0
    /\ uriKey = [d \in Docs |-> NoKey]
    /\ context = [k \in Keys |-> 0]
    /\ refCount = [k \in Keys |-> 0]
    /\ queries = {}
    /\ asked = {} /\ picks = {} /\ commands = 0
    /\ timers = {}
    /\ shown = Empty(NoDoc)
    /\ stats = {} /\ notified = {}
    /\ toasts = [d \in Docs |-> 0]

-----------------------------------------------------------------------------
(* The notifier and the status item *)

\* A verified event of a miscellaneous C# file in an initialized workspace makes
\* the notifier look the document up and ask for the file.
Notify(e) ==
    stats' = IF e.verified /\ e.misc /\ server = "complete" /\ e.doc \notin notified
             THEN stats \cup {<<e.doc, Cardinality(stats) + 1>>} ELSE stats

\* What the listeners do with an event.
Fire(e) ==
    /\ shown' = e
    /\ Notify(e)
    /\ UNCHANGED <<notified, toasts>>

\* The stat returns: the document is recorded and the toast shown, unless the
\* file is gone.
\* Mutant: the document is not recorded.
StatReturnsForgets(s, exists) ==
    /\ s \in stats
    /\ stats' = stats \ {s}
    /\ toasts' = IF exists THEN [toasts EXCEPT ![s[1]] = @ + 1] ELSE toasts
    /\ UNCHANGED <<notified, active, server, source, cacheVars, queries, commandVars, timers, shown>>

StatReturns(s, exists) ==
    /\ s \in stats
    /\ stats' = stats \ {s}
    /\ IF exists
       THEN /\ notified' = notified \cup {s[1]}
            /\ toasts' = [toasts EXCEPT ![s[1]] = @ + 1]
       ELSE UNCHANGED <<notified, toasts>>
    /\ UNCHANGED <<active, server, source, cacheVars, queries, commandVars, timers, shown>>

MayVerify == QuickStat => stats = {}

-----------------------------------------------------------------------------
(* ProjectContextService *)

\* updateCaches of document d with list l: the document moves from its old key
\* to the new one, and only a list of several contexts is tracked.
\* Mutant: a key whose last document left keeps its count.
UpdateCachesKeepsCount(d, l) ==
    IF uriKey[d] = l.key THEN UNCHANGED cacheVars
    ELSE /\ uriKey' = [uriKey EXCEPT ![d] = IF l.n > 1 THEN l.key ELSE NoKey]
         /\ refCount' = [k \in Keys |-> refCount[k] + (IF k = l.key /\ l.n > 1 THEN 1 ELSE 0)]
         /\ context' = [k \in Keys |->
               IF k = l.key /\ l.n > 1 /\ context[k] = 0 THEN l.default ELSE context[k]]

\* Mutant: the default replaces what another document of the key has chosen.
UpdateCachesResets(d, l) ==
    LET old == uriKey[d] IN
    IF old = l.key THEN UNCHANGED cacheVars
    ELSE /\ uriKey' = [uriKey EXCEPT ![d] = IF l.n > 1 THEN l.key ELSE NoKey]
         /\ refCount' = [k \in Keys |->
               CASE k = old -> IF refCount[k] <= 1 THEN 0 ELSE refCount[k] - 1
                 [] k = l.key /\ l.n > 1 -> refCount[k] + 1
                 [] OTHER -> refCount[k]]
         /\ context' = [k \in Keys |->
               CASE k = old /\ refCount[k] <= 1 -> 0
                 [] k = l.key /\ l.n > 1 -> l.default
                 [] OTHER -> context[k]]

UpdateCaches(d, l) ==
    LET old == uriKey[d]
        tracked == l.n > 1
    IN
    IF old = l.key THEN UNCHANGED cacheVars
    ELSE /\ uriKey' = [uriKey EXCEPT ![d] = IF tracked THEN l.key ELSE NoKey]
         /\ refCount' = [k \in Keys |->
               CASE k = old -> IF refCount[k] <= 1 THEN 0 ELSE refCount[k] - 1
                 [] k = l.key /\ tracked -> refCount[k] + 1
                 [] OTHER -> refCount[k]]
         /\ context' = [k \in Keys |->
               CASE k = old /\ refCount[k] <= 1 -> 0
                 [] k = l.key /\ tracked /\ context[k] = 0 -> l.default
                 [] OTHER -> context[k]]

\* getDocumentContext after the caches are up to date, or the list's default.
\* A document whose key was already known has the context of that key.
ContextOf(d, l) ==
    IF uriKey'[d] # NoKey THEN <<uriKey'[d], context'[uriKey'[d]]>> ELSE <<l.key, l.default>>

\* refresh, up to its await, of the document d: nothing for a document that is
\* not relevant; otherwise the query and the verification before it are
\* cancelled, and the server is asked if it runs.
Refresh(d, running) ==
    IF d = NoDoc THEN UNCHANGED <<source, queries, timers, shown, notifierVars>>
    ELSE /\ source < MaxRefreshes
         /\ source' = source + 1
         /\ timers' = {}
         /\ IF running
            THEN /\ queries' = queries \cup {[doc |-> d, source |-> source']}
                 /\ UNCHANGED <<shown, notifierVars>>
            ELSE /\ Fire(Empty(d))
                 /\ UNCHANGED queries

\* The triggers: the active editor, a request of the server, a server state.
ActiveEditorChanges(d) ==
    /\ active' = d
    /\ Refresh(d, server # "stopped")
    /\ UNCHANGED <<server, cacheVars, commandVars>>

RefreshRequest ==
    /\ server # "stopped"
    /\ Refresh(active, TRUE)
    /\ UNCHANGED <<active, server, cacheVars, commandVars>>

ServerStarts ==
    /\ server = "stopped"
    /\ server' = "started"
    /\ UNCHANGED <<active, source, cacheVars, queries, commandVars, timers, shown, notifierVars>>

ProjectInitializationComplete ==
    /\ server = "started"
    /\ server' = "complete"
    /\ Refresh(active, TRUE)
    /\ UNCHANGED <<active, cacheVars, commandVars>>

\* The connection goes with the server, and the queries on it fail with an
\* error that is not a cancellation: nothing is fired for them.
ServerStops ==
    /\ server # "stopped"
    /\ server' = "stopped"
    /\ asked' = {}
    /\ IF active = NoDoc
       THEN /\ queries' = {}
            /\ UNCHANGED <<source, timers, shown, notifierVars>>
       ELSE /\ source < MaxRefreshes
            /\ source' = source + 1
            /\ timers' = {}
            /\ queries' = {}
            /\ Fire(Empty(active))
    /\ UNCHANGED <<active, cacheVars, picks, commands>>

\* The rest of refresh.  A cancelled query, answered or not, ends in the empty
\* event of its document; the present one updates the caches, is announced and
\* starts the verification.
\* Mutant: the answer of a cancelled query is taken.
AnswerUnchecked(q, l) ==
    /\ q \in queries
    /\ queries' = queries \ {q}
    /\ UpdateCaches(q.doc, l)
    /\ UNCHANGED <<active, server, source, commandVars>>
    /\ LET c == ContextOf(q.doc, l)
       IN  /\ Fire(Event(q.doc, c[1], c[2], FALSE, l.misc, l.n > 1))
           /\ timers' = timers \cup {[source |-> q.source,
                                      event |-> Event(q.doc, c[1], c[2], TRUE, l.misc, l.n > 1)]}

Answer(q, l) ==
    /\ q \in queries
    /\ queries' = queries \ {q}
    /\ IF q.source # source
       THEN /\ UNCHANGED <<cacheVars, timers>>
            /\ Fire(Empty(q.doc))
       ELSE /\ UpdateCaches(q.doc, l)
            /\ LET c == ContextOf(q.doc, l)
               IN  /\ Fire(Event(q.doc, c[1], c[2], FALSE, l.misc, l.n > 1))
                   /\ timers' = timers \cup {[source |-> q.source,
                                              event |-> Event(q.doc, c[1], c[2], TRUE, l.misc, l.n > 1)]}
    /\ UNCHANGED <<active, server, source, commandVars>>

\* Five seconds without a refresh or a choice.
Verify(t) ==
    /\ t \in timers
    /\ MayVerify
    /\ timers' = timers \ {t}
    /\ Fire(t.event)
    /\ UNCHANGED <<active, server, source, cacheVars, queries, commandVars>>

-----------------------------------------------------------------------------
(* changeProjectContext *)

\* The command asks the server about a document, with a token nobody cancels.
ChangeProjectContext(d) ==
    /\ server # "stopped"
    /\ commands < MaxCommands
    /\ commands' = commands + 1
    /\ asked' = asked \cup {<<d, commands'>>}
    /\ UNCHANGED <<active, server, source, cacheVars, queries, picks, timers, shown, notifierVars>>

\* The answer updates the caches and is offered to the user.
Offer(a, l) ==
    /\ a \in asked
    /\ asked' = asked \ {a}
    /\ UpdateCaches(a[1], l)
    /\ picks' = picks \cup {[doc |-> a[1], list |-> l]}
    /\ UNCHANGED <<active, server, source, queries, commands, timers, shown, notifierVars>>

Dismiss(p) ==
    /\ p \in picks
    /\ picks' = picks \ {p}
    /\ UNCHANGED <<active, server, source, cacheVars, queries, asked, commands, timers, shown, notifierVars>>

\* setActiveFileContext, of a list that may be old by now.
SetActiveFileContext(p, i) ==
    /\ p \in picks
    /\ i \in 1 .. p.list.n
    /\ MayVerify
    /\ picks' = picks \ {p}
    /\ timers' = {}
    /\ context' = [context EXCEPT ![p.list.key] = i]
    /\ Fire(Event(p.doc, p.list.key, i, TRUE, p.list.misc, TRUE))
    /\ UNCHANGED <<active, server, source, uriKey, refCount, queries, asked, commands>>

Next ==
    \/ \E d \in Docs \cup {NoDoc} : ActiveEditorChanges(d)
    \/ RefreshRequest
    \/ ServerStarts \/ ProjectInitializationComplete \/ ServerStops
    \/ \E q \in queries, l \in Lists : Answer(q, l)
    \/ \E t \in timers : Verify(t)
    \/ \E d \in Docs : ChangeProjectContext(d)
    \/ \E a \in asked, l \in Lists : Offer(a, l)
    \/ \E p \in picks : Dismiss(p) \/ \E i \in 1 .. p.list.n : SetActiveFileContext(p, i)
    \/ \E s \in stats, exists \in BOOLEAN : StatReturns(s, exists)

Spec == Init /\ [][Next]_vars

-----------------------------------------------------------------------------
(***************************************************************************)
(* Properties                                                              *)
(***************************************************************************)

Contexts == [doc : Docs \cup {NoDoc}, key : Keys \cup {NoKey}, index : Nat,
             verified : BOOLEAN, misc : BOOLEAN, more : BOOLEAN]

\* The type of every variable; only a relevant document is asked about.
TypeOK ==
    /\ active \in Docs \cup {NoDoc}
    /\ server \in {"stopped", "started", "complete"}
    /\ source \in Sources
    /\ uriKey \in [Docs -> Keys \cup {NoKey}]
    /\ context \in [Keys -> Nat]
    /\ refCount \in [Keys -> Nat]
    /\ queries \subseteq [doc : Docs, source : Sources]
    /\ timers \subseteq [source : Sources, event : Contexts]
    /\ asked \subseteq Docs \X (1 .. MaxCommands)
    /\ picks \subseteq [doc : Docs, list : Lists]
    /\ commands \in 0 .. MaxCommands
    /\ shown \in Contexts
    /\ stats \subseteq Docs \X Nat
    /\ notified \subseteq Docs
    /\ toasts \in [Docs -> Nat]

\* updateCaches keeps its three maps together through any sequence of lists: the
\* count of a key is the number of documents mapped to it, so that the key is
\* forgotten with its last document and not before; a key that documents use has an
\* active context, and one of its list where a key always comes with one list.  The
\* converse is not said: a choice the user makes late leaves a context for a key that
\* no document uses any more.  Every variable has its type.
ListOfKey == \A l, m \in Lists : l.key = m.key => l.n = m.n

RefCountsExact ==
    /\ TypeOK
    /\ \A k \in Keys : refCount[k] = Cardinality({d \in Docs : uriKey[d] = k})
    /\ \A k \in Keys : refCount[k] > 0 => context[k] > 0
    /\ ListOfKey => \A l \in Lists : context[l.key] <= l.n

\* An answer of the server, however late, never changes the active context of a
\* key that documents use: only a choice of the user does.
OnlyAChoiceChangesContext ==
    [][\A k \in Keys : refCount[k] > 0 /\ refCount'[k] > 0 /\ context'[k] # context[k]
                       => picks' \subseteq picks /\ picks' # picks]_vars

\* At most one verification is pending, and it is of the last refresh: a context
\* that a newer refresh is about to replace is never announced as verified.
PendingVerificationIsOfLastRefresh ==
    /\ Cardinality(timers) <= 1
    /\ \A t \in timers : t.source = source

\* "Check to see if we have already notified the user about this document"
\* (miscellaneousFileNotifier.ts:40): a document is warned about once, where a file
\* system answers before the next verified event.
NotifiedOnce == QuickStat => \A d \in Docs : toasts[d] <= 1

\* What is announced of contexts is of the last refresh, and what is said of a
\* miscellaneous file is said once (projectContextService.ts:150-190,
\* miscellaneousFileNotifier.ts:36-60).
AnnouncedOnce == PendingVerificationIsOfLastRefresh /\ NotifiedOnce
=============================================================================
