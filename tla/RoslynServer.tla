------------------------------ MODULE RoslynServer ------------------------------
(***************************************************************************)
(* The life of the Roslyn language server: RoslynLanguageServer            *)
(* (lsptoolshost/server/roslynLanguageServer.ts) and RoslynLanguageClient  *)
(* (roslynLanguageClient.ts).  The client starts the process, tells it     *)
(* which solution or projects to open, is restarted by the user or by the  *)
(* library's error handler after a crash, and passes on the pipe name of   *)
(* C# Dev Kit's own server.                                                *)
(*                                                                         *)
(* The library's LanguageClient (external) is its state, with one state    *)
(* change event per transition between running and stopped.  A             *)
(* notification is written and the code after its await run in one step;   *)
(* the server may crash before or after.                                   *)
(***************************************************************************)
EXTENDS Naturals, FiniteSets

CONSTANTS
    Solutions,          \* the solutions a user may open
    Projects,           \* a set of project files opened instead of a solution
    None,
    DefaultSolution,    \* dotnet.defaultSolution: one of Solutions, "" or "disable"
    MaxSessions,        \* bound: server processes started
    MaxOpens,           \* bound: solutions and projects the user opens
    Callers             \* restart commands that may overlap

ASSUME ServerAssumption ==
    /\ {Projects, None} \cap Solutions = {} /\ Projects # None
    /\ IsFiniteSet(Solutions)
    /\ DefaultSolution \in Solutions \cup {"", "disable"}
    /\ MaxSessions \in Nat \ {0} /\ MaxOpens \in Nat

Sessions == 1 .. MaxSessions
Workspaces == Solutions \cup {Projects, None}

VARIABLES
    client,     \* the LanguageClient's state
    session,    \* the number of the present or last process
    restarts,   \* what each restart() call awaits, or how it ended
    held,       \* _solutionFile and _projectFiles
    opens,      \* solutions and projects opened by the user
    finding,    \* what openDefaultSolutionOrProjects of each session awaits
    onDisk,     \* the solutions findFiles finds, at most two
    state,      \* _state, the last event of the server
    told,       \* the last workspace the process was told to open
    loads,      \* the workspaces it was told of and has not reported as loaded
    devKit,     \* whether C# Dev Kit is there, and its server process has loaded
    connecting, \* sessions whose service broker connection awaits Dev Kit
    listeners,  \* subscriptions to Dev Kit's serverProcessLoaded
    connected,  \* the process has been told the pipe name
    shownClose, \* _hasShownConnectionClose
    notices,    \* crash notifications shown in each session
    crashed     \* the sessions that ended in a crash

openVars == <<held, opens, finding, onDisk, told, loads>>
devKitVars == <<devKit, connecting, listeners, connected>>
crashVars == <<shownClose, notices, crashed>>
vars == <<client, session, restarts, state, openVars, devKitVars, crashVars>>

Init ==
    /\ client = "starting"
    /\ session = 1
    /\ restarts = [c \in Callers |-> "idle"]
    /\ held = None /\ told = None
    /\ opens = 0 /\ loads = 0
    /\ finding = [s \in Sessions |-> "none"]
    /\ onDisk \in {d \in SUBSET Solutions : Cardinality(d) <= 2}
    /\ state = "Stopped"
    /\ devKit \in {"absent", "unloaded", "loaded"}
    /\ connecting = {} /\ listeners = {}
    /\ connected = FALSE
    /\ shownClose = FALSE
    /\ notices = [s \in Sessions |-> 0]
    /\ crashed = {}

HasDevKit == devKit # "absent"

-----------------------------------------------------------------------------
(* The workspace *)

\* sendOpenSolutionAndProjectsNotifications of workspace w, to a server that
\* runs: nothing is sent, nor fired, when there is nothing to open.
SendOpen(w) ==
    IF w = None
    THEN UNCHANGED <<told, loads, state>>
    ELSE /\ told' = w
         /\ loads' = loads + 1
         /\ state' = "ProjectInitializationStarted"

\* openSolution and openProjects: the workspace replaces the one held, and is
\* sent now or when the server runs.
Open(w) ==
    /\ held' = w
    /\ IF client = "running" THEN SendOpen(w) ELSE UNCHANGED <<told, loads, state>>

UserOpens(w) ==
    /\ opens < MaxOpens
    /\ opens' = opens + 1
    /\ Open(w)
    /\ UNCHANGED <<client, session, restarts, finding, onDisk, devKitVars, crashVars>>

\* openDefaultSolutionOrProjects, up to its first await.  It is called without a
\* workspace held.
OpenDefault ==
    LET here == [finding EXCEPT ![session] = "solutions"] IN
    CASE HasDevKit \/ DefaultSolution = "disable" -> UNCHANGED <<held, told, loads, finding>> /\ state' = "Started"
      [] ~HasDevKit /\ DefaultSolution = ""       -> finding' = here /\ UNCHANGED <<held, told, loads>> /\ state' = "Started"
      [] OTHER -> /\ held' = DefaultSolution
                  /\ SendOpen(DefaultSolution)
                  /\ UNCHANGED finding

\* findFiles has found the solutions: the only one is opened, several are for
\* the user to choose from, and without one the projects are looked for.
SolutionsFound(s) ==
    /\ finding[s] = "solutions"
    /\ finding' = [finding EXCEPT ![s] =
         CASE onDisk = {}              -> "projects"
           [] Cardinality(onDisk) = 1  -> "none"
           [] Cardinality(onDisk) > 1  -> "asking"]
    /\ IF Cardinality(onDisk) = 1
       THEN \E w \in onDisk : Open(w)
       ELSE UNCHANGED <<held, told, loads, state>>
    /\ UNCHANGED <<client, session, restarts, opens, onDisk, devKitVars, crashVars>>

\* findFiles has found the project files, which may be none at all.
ProjectsFound(s, w) ==
    /\ finding[s] = "projects"
    /\ finding' = [finding EXCEPT ![s] = "none"]
    /\ Open(w)
    /\ UNCHANGED <<client, session, restarts, opens, onDisk, devKitVars, crashVars>>

\* The user picks a solution with dotnet.openSolution, or none.
Asked(s, w) ==
    /\ finding[s] = "asking"
    /\ finding' = [finding EXCEPT ![s] = "none"]
    /\ IF w = None THEN UNCHANGED <<held, told, loads, state>> ELSE Open(w)
    /\ UNCHANGED <<client, session, restarts, opens, onDisk, devKitVars, crashVars>>

\* The server has loaded what it was told to open.
ProjectInitializationComplete ==
    /\ client = "running"
    /\ loads > 0
    /\ loads' = loads - 1
    /\ state' = "ProjectInitializationComplete"
    /\ UNCHANGED <<client, session, restarts, held, opens, finding, onDisk, told, devKitVars, crashVars>>

-----------------------------------------------------------------------------
(* C# Dev Kit's service broker *)

\* sendOrSubscribeForServiceBrokerConnection, up to the await of its activation.
BeginConnect(s) == IF HasDevKit THEN connecting' = connecting \cup {s} ELSE UNCHANGED connecting

\* The pipe name is sent if the client runs by then (an exception otherwise), or
\* waits for Dev Kit's server.
\* Mutant: nothing waits for it.
ConnectNow(s) ==
    /\ s \in connecting
    /\ connecting' = connecting \ {s}
    /\ connected' = (connected \/ (devKit = "loaded" /\ client = "running"))
    /\ UNCHANGED <<listeners, devKit, client, session, restarts, state, openVars, crashVars>>

Connect(s) ==
    /\ s \in connecting
    /\ connecting' = connecting \ {s}
    /\ IF devKit = "loaded"
       THEN /\ connected' = (connected \/ client = "running")
            /\ UNCHANGED listeners
       ELSE /\ listeners' = listeners \cup {s}
            /\ UNCHANGED connected
    /\ UNCHANGED <<devKit, client, session, restarts, state, openVars, crashVars>>

\* Every subscription, those of earlier sessions too, tries again.
DevKitServerLoads ==
    /\ devKit = "unloaded"
    /\ devKit' = "loaded"
    /\ connecting' = connecting \cup listeners
    /\ UNCHANGED <<listeners, connected, client, session, restarts, state, openVars, crashVars>>

-----------------------------------------------------------------------------
(* Start, stop and crash *)

\* The handlers of State.Running: what is held is sent, or the default looked
\* for, after Started was fired; the crash flag is reset.
\* Mutant: a restarted server is not told the workspace.
RunningForgets ==
    /\ client = "starting"
    /\ client' = "running"
    /\ restarts' = [c \in Callers |-> IF restarts[c] = "starting" THEN "done" ELSE restarts[c]]
    /\ OpenDefault
    /\ BeginConnect(session)
    /\ shownClose' = FALSE
    /\ UNCHANGED <<session, opens, onDisk, devKit, listeners, connected, notices, crashed>>

Running ==
    /\ client = "starting"
    /\ client' = "running"
    /\ restarts' = [c \in Callers |-> IF restarts[c] = "starting" THEN "done" ELSE restarts[c]]
    /\ IF held # None THEN SendOpen(held) /\ UNCHANGED <<held, finding>> ELSE OpenDefault
    /\ BeginConnect(session)
    /\ shownClose' = FALSE
    /\ UNCHANGED <<session, opens, onDisk, devKit, listeners, connected, notices, crashed>>

\* The process does not start; start() rejects, and the library neither stops nor
\* starts the client again.
StartFails ==
    /\ client = "starting"
    /\ client' = "startFailed"
    /\ restarts' = [c \in Callers |-> IF restarts[c] = "starting" THEN "failed" ELSE restarts[c]]
    /\ UNCHANGED <<session, state, openVars, devKitVars, crashVars>>

\* The process is gone, with what it was told.
ProcessEnds ==
    /\ told' = None
    /\ loads' = 0
    /\ connected' = FALSE

\* A new process is launched by start(), once however many calls wait for it.
Launch ==
    /\ session < MaxSessions
    /\ session' = session + 1
    /\ client' = "starting"

\* restart(): stop() first, which rejects unless the client runs or has stopped.
Restart(c) ==
    /\ restarts[c] = "idle"
    /\ CASE client = "running" -> /\ client' = "stopping"
                                  /\ restarts' = [restarts EXCEPT ![c] = "stopping"]
                                  /\ UNCHANGED session
         [] client = "stopping" -> /\ restarts' = [restarts EXCEPT ![c] = "stopping"]
                                   /\ UNCHANGED <<client, session>>
         [] client \in {"starting", "startFailed"} ->
                /\ restarts' = [restarts EXCEPT ![c] = "failed"]
                 /\ UNCHANGED <<client, session>>
         [] client = "stopped"  -> /\ Launch
                                   /\ restarts' = [restarts EXCEPT ![c] = "starting"]
    /\ UNCHANGED <<state, openVars, devKitVars, crashVars>>

\* The process has shut down: Stopped is fired and the server started again.
\* Mutant: no event is fired.
StoppedSilently ==
    /\ client = "stopping"
    /\ Launch
    /\ restarts' = [c \in Callers |-> IF restarts[c] = "stopping" THEN "starting" ELSE restarts[c]]
    /\ ProcessEnds
    /\ UNCHANGED <<state, held, opens, finding, onDisk, devKit, connecting, listeners, crashVars>>

Stopped ==
    /\ client = "stopping"
    /\ Launch
    /\ restarts' = [c \in Callers |-> IF restarts[c] = "stopping" THEN "starting" ELSE restarts[c]]
    /\ ProcessEnds
    /\ state' = "Stopped"
    /\ UNCHANGED <<held, opens, finding, onDisk, devKit, connecting, listeners, crashVars>>

\* It does not shut down in ten seconds: stop() rejects and restart() with it.
\* Mutant: the rejection of stop() is lost.
StopTimesOutSilent ==
    /\ client = "stopping"
    /\ client' = "stopped"
    /\ ProcessEnds
    /\ state' = "Stopped"
    /\ UNCHANGED <<restarts, session, held, opens, finding, onDisk, devKit, connecting, listeners, crashVars>>

StopTimesOut ==
    /\ client = "stopping"
    /\ client' = "stopped"
    /\ restarts' = [c \in Callers |-> IF restarts[c] = "stopping" THEN "failed" ELSE restarts[c]]
    /\ ProcessEnds
    /\ state' = "Stopped"
    /\ UNCHANGED <<session, held, opens, finding, onDisk, devKit, connecting, listeners, crashVars>>

\* showCrashNotification, once until the server runs again.
\* Mutant: every time.
ShowCrashAlways ==
    /\ notices' = [notices EXCEPT ![session] = @ + 1]
    /\ UNCHANGED shownClose

ShowCrash ==
    IF shownClose
    THEN UNCHANGED <<shownClose, notices>>
    ELSE /\ shownClose' = TRUE
         /\ notices' = [notices EXCEPT ![session] = @ + 1]

\* An error on the connection, which the crash of the server may follow.
ConnectionError ==
    /\ client = "running"
    /\ ShowCrash
    /\ UNCHANGED <<client, session, restarts, state, openVars, devKitVars, crashed>>

\* The connection is closed under a running server: the library's handler starts
\* another process or, after too many, leaves it.
Crash(again) ==
    /\ client = "running"
    /\ ShowCrash
    /\ crashed' = crashed \cup {session}
    /\ ProcessEnds
    /\ state' = "Stopped"
    /\ IF again THEN Launch ELSE client' = "stopped" /\ UNCHANGED session
    /\ UNCHANGED <<restarts, held, opens, finding, onDisk, devKit, connecting, listeners>>

Next ==
    \/ \E w \in Solutions \cup {Projects} : UserOpens(w)
    \/ \E s \in Sessions :
          \/ SolutionsFound(s)
          \/ \E w \in {Projects, None} : ProjectsFound(s, w)
          \/ \E w \in Solutions \cup {None} : Asked(s, w)
          \/ Connect(s)
    \/ ProjectInitializationComplete
    \/ DevKitServerLoads
    \/ Running \/ StartFails \/ Stopped \/ StopTimesOut \/ ConnectionError
    \/ \E c \in Callers : Restart(c)
    \/ \E again \in BOOLEAN : Crash(again)

\* Awaited calls of VS Code and of Dev Kit return; stop and start end.
Fairness ==
    /\ \A s \in Sessions : WF_vars(Connect(s)) /\ WF_vars(SolutionsFound(s))
    /\ WF_vars(Running \/ StartFails)
    /\ WF_vars(Stopped \/ StopTimesOut)

Spec == Init /\ [][Next]_vars /\ Fairness

-----------------------------------------------------------------------------
(***************************************************************************)
(* Properties                                                              *)
(***************************************************************************)

States == {"Stopped", "Started", "ProjectInitializationStarted", "ProjectInitializationComplete"}

\* The type of every variable, and nothing is left of a process that has ended.
TypeOK ==
    /\ client \in {"starting", "running", "stopping", "stopped", "startFailed"}
    /\ client \in {"running", "stopping"} \/ (told = None /\ loads = 0 /\ ~connected)
    /\ session \in Sessions
    /\ restarts \in [Callers -> {"idle", "stopping", "starting", "done", "failed"}]
    /\ held \in Workspaces /\ told \in Workspaces
    /\ opens \in 0 .. MaxOpens /\ loads \in Nat
    /\ finding \in [Sessions -> {"none", "solutions", "projects", "asking"}]
    /\ onDisk \subseteq Solutions
    /\ state \in States
    /\ devKit \in {"absent", "unloaded", "loaded"}
    /\ connecting \subseteq Sessions /\ listeners \subseteq Sessions
    /\ connected \in BOOLEAN /\ shownClose \in BOOLEAN
    /\ notices \in [Sessions -> Nat]
    /\ crashed \subseteq Sessions

\* The state the status items show: Stopped exactly while no server runs or is
\* being stopped.
StateFollowsServer == state = "Stopped" <=> client \in {"starting", "stopped", "startFailed"}

\* "we hold onto this so we can send this back over if the server were to be
\* relaunched for any reason" (roslynLanguageServer.ts:72-76): a server that
\* runs has been told the workspace that is held, whichever of the user, the
\* default search, a restart or a crash came first, and its state is shown.
ServerHasWorkspace ==
    /\ TypeOK
    /\ StateFollowsServer
    /\ client = "running" /\ held # None => told = held

\* "note that both of these can be called in the crash scenario, so we de-dupe
\* notifications here" (roslynLanguageClient.ts:98-99): a session that crashes
\* is reported, and no session is reported twice.
CrashReportedOnce ==
    \A s \in Sessions : notices[s] <= 1 /\ (s \in crashed => notices[s] = 1)

\* A running server gets the pipe name once Dev Kit's server has loaded, whether
\* that happens before, during or after its start, unless it goes away.
EveryServerConnected ==
    client = "running" /\ devKit = "loaded" ~> connected \/ client # "running"

\* A restart() ends; two that overlap share one new process.
EveryRestartEnds ==
    \A c \in Callers : restarts[c] \in {"stopping", "starting"} ~> restarts[c] \in {"done", "failed"}
=============================================================================
