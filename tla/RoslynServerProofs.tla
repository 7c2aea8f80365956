--------------------------- MODULE RoslynServerProofs ---------------------------
(***************************************************************************)
(* Proofs about RoslynServer: the server that runs has been told the       *)
(* workspace that is held, and a crash is reported once, for any           *)
(* solutions, callers of restart() and number of processes.                *)
(*                                                                         *)
(* The first property is inductive once it is joined with the types and    *)
(* the state shown.  The second is not: that no session is reported twice  *)
(* depends on _hasShownConnectionClose being true exactly when the present *)
(* session was reported, and on the sessions to come being unreported.     *)
(***************************************************************************)
EXTENDS RoslynServer, FiniteSetTheorems, TLAPS

\* What _hasShownConnectionClose says of the present session, and that no
\* session was reported before it ran.
ReportedBeforeCrash ==
    /\ \A s \in Sessions : s > session => notices[s] = 0
    /\ client = "starting" => notices[session] = 0
    /\ client = "running" => notices[session] = IF shownClose THEN 1 ELSE 0

\* The inductive invariant.
IInv == ServerHasWorkspace /\ CrashReportedOnce /\ ReportedBeforeCrash

-----------------------------------------------------------------------------
\* What openDefaultSolutionOrProjects opens is a solution.
LEMMA DefaultIsSolution ==
    ASSUME DefaultSolution \notin {"", "disable"}
    PROVE  DefaultSolution \in Solutions
BY ServerAssumption

\* The bounds, from the assumption on them.
LEMMA BoundsAreNumbers == MaxSessions \in Nat \ {0} /\ MaxOpens \in Nat
BY ServerAssumption

\* findFiles finds no solution, one or several.
LEMMA FoundSome ==
    ASSUME onDisk \subseteq Solutions
    PROVE  onDisk = {} \/ Cardinality(onDisk) = 1 \/ Cardinality(onDisk) > 1
<1>1. IsFiniteSet(onDisk)
    BY ServerAssumption, FS_Subset
<1>2. Cardinality(onDisk) \in Nat /\ (Cardinality(onDisk) = 0 <=> onDisk = {})
    BY <1>1, FS_CardinalityType, FS_EmptySet
<1>. QED BY <1>2

\* No process was started yet, and nothing is shown.
LEMMA InitIInv == Init => IInv
<1> SUFFICES ASSUME Init PROVE IInv
    OBVIOUS
<1>1. 1 \in Sessions /\ 0 \in 0 .. MaxOpens
    BY BoundsAreNumbers DEF Sessions
<1>2. ServerHasWorkspace
    BY <1>1 DEF Init, ServerHasWorkspace, TypeOK, StateFollowsServer, States, Workspaces
<1>3. CrashReportedOnce /\ ReportedBeforeCrash
    BY <1>1 DEF Init, CrashReportedOnce, ReportedBeforeCrash
<1>. QED BY <1>2, <1>3 DEF IInv

-----------------------------------------------------------------------------
\* openSolution and openProjects leave the server with what is held, whether it
\* runs or not.
LEMMA OpenIsTold ==
    ASSUME ServerHasWorkspace, NEW w \in Workspaces, Open(w)
    PROVE  /\ held' \in Workspaces /\ told' \in Workspaces /\ loads' \in Nat /\ state' \in States
           /\ client \in {"running", "stopping"} \/ (told' = None /\ loads' = 0)
           /\ state' = "Stopped" <=> client \in {"starting", "stopped", "startFailed"}
           /\ client = "running" /\ held' # None => told' = held'
BY DEF Open, SendOpen, ServerHasWorkspace, TypeOK, StateFollowsServer, States, Workspaces

\* The steps that open a workspace.
LEMMA OpeningSteps ==
    ASSUME ServerHasWorkspace,
           \/ \E w \in Solutions \cup {Projects} : UserOpens(w)
           \/ \E s \in Sessions :
                 \/ SolutionsFound(s)
                 \/ \E w \in {Projects, None} : ProjectsFound(s, w)
                 \/ \E w \in Solutions \cup {None} : Asked(s, w)
    PROVE  ServerHasWorkspace'
<1>1. ASSUME NEW w \in Workspaces, Open(w), client' = client, session' = session,
             restarts' = restarts, onDisk' = onDisk, opens' \in 0 .. MaxOpens,
             finding' \in [Sessions -> {"none", "solutions", "projects", "asking"}],
             UNCHANGED devKitVars, UNCHANGED crashVars
      PROVE  ServerHasWorkspace'
  <2>1. TypeOK'
      BY <1>1, OpenIsTold DEF ServerHasWorkspace, TypeOK, devKitVars, crashVars
  <2>. QED BY <1>1, <2>1, OpenIsTold DEF ServerHasWorkspace, StateFollowsServer
<1>2. ASSUME UNCHANGED <<client, session, restarts, held, opens, onDisk, told, loads, state>>,
             finding' \in [Sessions -> {"none", "solutions", "projects", "asking"}],
             UNCHANGED devKitVars, UNCHANGED crashVars
      PROVE  ServerHasWorkspace'
    BY <1>2 DEF ServerHasWorkspace, TypeOK, StateFollowsServer, devKitVars, crashVars
<1>3. TypeOK
    BY DEF ServerHasWorkspace
<1>4. ASSUME NEW w \in Solutions \cup {Projects}, UserOpens(w)
      PROVE  ServerHasWorkspace'
  <2>1. opens' \in 0 .. MaxOpens
      BY <1>3, <1>4, BoundsAreNumbers DEF UserOpens, TypeOK
  <2>2. w \in Workspaces
      BY DEF Workspaces
  <2>. QED BY <1>1, <1>3, <1>4, <2>1, <2>2 DEF UserOpens, TypeOK
<1>5. ASSUME NEW s \in Sessions, SolutionsFound(s)
      PROVE  ServerHasWorkspace'
  <2>1. finding' \in [Sessions -> {"none", "solutions", "projects", "asking"}]
    <3>1. onDisk = {} \/ Cardinality(onDisk) = 1 \/ Cardinality(onDisk) > 1
        BY <1>3, FoundSome DEF TypeOK
    <3>. QED BY <1>3, <1>5, <3>1 DEF SolutionsFound, TypeOK
  <2>2. CASE Cardinality(onDisk) = 1
    <3>1. PICK w \in onDisk : Open(w)
        BY <1>5, <2>2 DEF SolutionsFound
    <3>2. w \in Workspaces
        BY <1>3 DEF TypeOK, Workspaces
    <3>. QED BY <1>1, <1>3, <1>5, <2>1, <3>1, <3>2 DEF SolutionsFound, TypeOK
  <2>3. CASE Cardinality(onDisk) # 1
      BY <1>2, <1>5, <2>1, <2>3 DEF SolutionsFound
  <2>. QED BY <2>2, <2>3
<1>6. ASSUME NEW s \in Sessions, NEW w \in {Projects, None}, ProjectsFound(s, w)
      PROVE  ServerHasWorkspace'
  <2>1. w \in Workspaces
      BY DEF Workspaces
  <2>. QED BY <1>1, <1>3, <1>6, <2>1 DEF ProjectsFound, TypeOK
<1>7. ASSUME NEW s \in Sessions, NEW w \in Solutions \cup {None}, Asked(s, w)
      PROVE  ServerHasWorkspace'
  <2>1. w \in Workspaces /\ finding' \in [Sessions -> {"none", "solutions", "projects", "asking"}]
      BY <1>3, <1>7 DEF Asked, TypeOK, Workspaces
  <2>2. CASE w = None
      BY <1>2, <1>7, <2>1, <2>2 DEF Asked
  <2>3. CASE w # None
      BY <1>1, <1>3, <1>7, <2>1, <2>3 DEF Asked, TypeOK
  <2>. QED BY <2>2, <2>3
<1>. QED BY <1>4, <1>5, <1>6, <1>7

-----------------------------------------------------------------------------
\* The handlers of State.Running tell the server what is held, the crash flag is
\* reset.
LEMMA RunningKeeps ==
    ASSUME IInv, Running
    PROVE  IInv'
<1>. USE DEF Running
<1>1. /\ held' \in Workspaces /\ told' \in Workspaces /\ loads' \in Nat
      /\ state' \in States \ {"Stopped"}
      /\ held' # None => told' = held'
      /\ finding' \in [Sessions -> {"none", "solutions", "projects", "asking"}]
  <2>1. ASSUME NEW w \in Workspaces, SendOpen(w), w # None
        PROVE  told' = w /\ loads' \in Nat /\ state' \in States \ {"Stopped"}
      BY <2>1 DEF SendOpen, IInv, ServerHasWorkspace, TypeOK, States
  <2>2. TypeOK
      BY DEF IInv, ServerHasWorkspace
  <2>3. CASE held # None
      BY <2>1, <2>2, <2>3 DEF TypeOK
  <2>4. CASE held = None
    <3>1. CASE HasDevKit \/ DefaultSolution \in {"disable", ""}
        BY <2>2, <2>4, <3>1 DEF OpenDefault, TypeOK, States
    <3>2. CASE ~HasDevKit /\ DefaultSolution \notin {"disable", ""}
      <4>1. DefaultSolution \in Workspaces \ {None}
          BY <3>2, ServerAssumption DEF Workspaces
      <4>2. held' = DefaultSolution /\ SendOpen(DefaultSolution) /\ UNCHANGED finding
          BY <2>4, <3>2 DEF OpenDefault
      <4>. QED BY <2>1, <2>2, <4>1, <4>2 DEF TypeOK
    <3>. QED BY <3>1, <3>2
  <2>. QED BY <2>3, <2>4
<1>2. connecting' \subseteq Sessions
    BY DEF BeginConnect, IInv, ServerHasWorkspace, TypeOK
<1>3. restarts' \in [Callers -> {"idle", "stopping", "starting", "done", "failed"}]
    BY DEF IInv, ServerHasWorkspace, TypeOK
<1>4. TypeOK'
    BY <1>1, <1>2, <1>3 DEF IInv, ServerHasWorkspace, TypeOK
<1>5. ServerHasWorkspace'
    BY <1>1, <1>4 DEF ServerHasWorkspace, StateFollowsServer
<1>6. CrashReportedOnce' /\ ReportedBeforeCrash'
    BY DEF IInv, CrashReportedOnce, ReportedBeforeCrash
<1>. QED BY <1>5, <1>6 DEF IInv

\* A process that has ended leaves nothing of what it was told; the next one
\* starts unreported.
LEMMA EndKeeps ==
    ASSUME IInv, ProcessEnds, state' = "Stopped",
           restarts' \in [Callers -> {"idle", "stopping", "starting", "done", "failed"}],
           UNCHANGED <<held, opens, finding, onDisk, devKit, connecting, listeners>>,
           Launch \/ (client' = "stopped" /\ UNCHANGED session),
           shownClose' \in BOOLEAN, notices' \in [Sessions -> Nat], crashed' \subseteq Sessions,
           CrashReportedOnce', \A s \in Sessions : s > session => notices'[s] = 0
    PROVE  IInv'
<1>1. session' \in Sessions /\ session' >= session /\ client' \in {"starting", "stopped"}
      /\ (client' = "starting" => session' > session)
    BY BoundsAreNumbers DEF Launch, Sessions, IInv, ServerHasWorkspace, TypeOK
<1>2. ServerHasWorkspace'
    BY <1>1 DEF ProcessEnds, IInv, ServerHasWorkspace, TypeOK, StateFollowsServer, States, Workspaces
<1>3. session \in Nat /\ session' \in Nat /\ Sessions \subseteq Nat
    BY <1>1 DEF Sessions, IInv, ServerHasWorkspace, TypeOK
<1>4. ReportedBeforeCrash'
    BY <1>1, <1>3 DEF ReportedBeforeCrash
<1>. QED BY <1>2, <1>4 DEF IInv

\* showCrashNotification reports the present session, once.
LEMMA ShowCrashReports ==
    ASSUME IInv, ShowCrash, client = "running"
    PROVE  /\ shownClose' = TRUE /\ notices' \in [Sessions -> Nat]
           /\ notices'[session] = 1
           /\ \A s \in Sessions \ {session} : notices'[s] = notices[s]
BY DEF ShowCrash, IInv, ServerHasWorkspace, TypeOK, ReportedBeforeCrash

\* Every step of the servers and of the callers keeps the invariant.
LEMMA NextIInv == IInv /\ [Next]_vars => IInv'
<1> SUFFICES ASSUME IInv, [Next]_vars PROVE IInv'
    OBVIOUS
<1>1. TypeOK /\ ServerHasWorkspace /\ CrashReportedOnce /\ ReportedBeforeCrash
    BY DEF IInv, ServerHasWorkspace
<1>2. session \in Nat /\ Sessions \subseteq Nat /\ session \in Sessions
    BY <1>1 DEF TypeOK, Sessions
<1>3. ASSUME \/ \E w \in Solutions \cup {Projects} : UserOpens(w)
             \/ \E s \in Sessions :
                   \/ SolutionsFound(s)
                   \/ \E w \in {Projects, None} : ProjectsFound(s, w)
                   \/ \E w \in Solutions \cup {None} : Asked(s, w)
      PROVE  IInv'
  <2>1. UNCHANGED <<client, session, crashVars>>
      BY <1>3 DEF UserOpens, SolutionsFound, ProjectsFound, Asked
  <2>2. CrashReportedOnce' /\ ReportedBeforeCrash'
      BY <1>1, <2>1 DEF CrashReportedOnce, ReportedBeforeCrash, crashVars
  <2>. QED BY <1>1, <1>3, <2>2, OpeningSteps DEF IInv
<1>4. ASSUME NEW s \in Sessions, Connect(s) PROVE IInv'
    BY <1>1, <1>4
    DEF Connect, IInv, ServerHasWorkspace, TypeOK, StateFollowsServer, CrashReportedOnce,
        ReportedBeforeCrash, openVars, crashVars
<1>5. CASE ProjectInitializationComplete \/ DevKitServerLoads
    BY <1>1, <1>5
    DEF ProjectInitializationComplete, DevKitServerLoads, IInv, ServerHasWorkspace, TypeOK, States,
        StateFollowsServer, CrashReportedOnce, ReportedBeforeCrash, openVars, devKitVars, crashVars
<1>6. CASE Running
    BY <1>6, RunningKeeps
<1>7. CASE StartFails
    BY <1>1, <1>7
    DEF StartFails, IInv, ServerHasWorkspace, TypeOK, StateFollowsServer, CrashReportedOnce,
        ReportedBeforeCrash, openVars, devKitVars, crashVars
<1>8. CASE Stopped \/ StopTimesOut
  <2>1. UNCHANGED crashVars /\ restarts' \in [Callers -> {"idle", "stopping", "starting", "done", "failed"}]
      BY <1>1, <1>8 DEF Stopped, StopTimesOut, TypeOK
  <2>2. ProcessEnds /\ state' = "Stopped" /\ (Launch \/ (client' = "stopped" /\ UNCHANGED session))
        /\ UNCHANGED <<held, opens, finding, onDisk, devKit, connecting, listeners>>
      BY <1>8 DEF Stopped, StopTimesOut
  <2>3. shownClose' \in BOOLEAN /\ notices' \in [Sessions -> Nat] /\ crashed' \subseteq Sessions
        /\ CrashReportedOnce' /\ \A s \in Sessions : s > session => notices'[s] = 0
      BY <1>1, <2>1 DEF crashVars, TypeOK, CrashReportedOnce, ReportedBeforeCrash
  <2>. QED BY <2>1, <2>2, <2>3, EndKeeps
<1>9. CASE ConnectionError
  <2>1. /\ shownClose' = TRUE /\ notices' \in [Sessions -> Nat] /\ notices'[session] = 1
        /\ \A s \in Sessions \ {session} : notices'[s] = notices[s]
      BY <1>9, ShowCrashReports DEF ConnectionError
  <2>2. ServerHasWorkspace'
      BY <1>1, <1>9, <2>1
      DEF ConnectionError, ServerHasWorkspace, TypeOK, StateFollowsServer, openVars, devKitVars
  <2>3. CrashReportedOnce' /\ ReportedBeforeCrash'
      BY <1>1, <1>2, <1>9, <2>1 DEF ConnectionError, CrashReportedOnce, ReportedBeforeCrash
  <2>. QED BY <2>2, <2>3 DEF IInv
<1>10. ASSUME NEW c \in Callers, Restart(c) PROVE IInv'
  <2>1. CASE client = "stopped"
    <3>1. Launch /\ UNCHANGED <<state, openVars, devKitVars, crashVars>>
          /\ restarts' \in [Callers -> {"idle", "stopping", "starting", "done", "failed"}]
        BY <1>1, <1>10, <2>1 DEF Restart, TypeOK
    <3>2. ProcessEnds /\ state' = "Stopped"
        BY <1>1, <2>1, <3>1
        DEF ProcessEnds, ServerHasWorkspace, StateFollowsServer, TypeOK, openVars, devKitVars
    <3>3. shownClose' \in BOOLEAN /\ notices' \in [Sessions -> Nat] /\ crashed' \subseteq Sessions
          /\ CrashReportedOnce' /\ \A s \in Sessions : s > session => notices'[s] = 0
        BY <1>1, <3>1 DEF crashVars, TypeOK, CrashReportedOnce, ReportedBeforeCrash
    <3>. QED BY <3>1, <3>2, <3>3, EndKeeps DEF openVars, devKitVars
  <2>2. CASE client # "stopped"
    <3>1. UNCHANGED <<session, state, openVars, devKitVars, crashVars>>
          /\ restarts' \in [Callers -> {"idle", "stopping", "starting", "done", "failed"}]
          /\ (client' = client \/ (client = "running" /\ client' = "stopping"))
        BY <1>1, <1>10, <2>2 DEF Restart, TypeOK
    <3>. QED BY <1>1, <3>1
         DEF IInv, ServerHasWorkspace, TypeOK, StateFollowsServer, CrashReportedOnce,
             ReportedBeforeCrash, openVars, devKitVars, crashVars
  <2>. QED BY <2>1, <2>2
<1>11. ASSUME NEW again \in BOOLEAN, Crash(again) PROVE IInv'
  <2>1. /\ shownClose' = TRUE /\ notices' \in [Sessions -> Nat] /\ notices'[session] = 1
        /\ \A s \in Sessions \ {session} : notices'[s] = notices[s]
        /\ crashed' = crashed \cup {session}
      BY <1>11, ShowCrashReports DEF Crash
  <2>2. ProcessEnds /\ state' = "Stopped" /\ (Launch \/ (client' = "stopped" /\ UNCHANGED session))
        /\ UNCHANGED <<held, opens, finding, onDisk, devKit, connecting, listeners>>
      BY <1>11 DEF Crash
  <2>3. shownClose' \in BOOLEAN /\ crashed' \subseteq Sessions
        /\ CrashReportedOnce' /\ \A s \in Sessions : s > session => notices'[s] = 0
      BY <1>1, <1>2, <2>1 DEF TypeOK, CrashReportedOnce, ReportedBeforeCrash
  <2>4. restarts' \in [Callers -> {"idle", "stopping", "starting", "done", "failed"}]
      BY <1>1, <1>11 DEF Crash, TypeOK
  <2>. QED BY <2>1, <2>2, <2>3, <2>4, EndKeeps
<1>12. CASE UNCHANGED vars
    BY <1>1, <1>12
    DEF vars, IInv, ServerHasWorkspace, TypeOK, StateFollowsServer, CrashReportedOnce,
        ReportedBeforeCrash, openVars, devKitVars, crashVars
<1>. QED
    BY <1>3, <1>4, <1>5, <1>6, <1>7, <1>8, <1>9, <1>10, <1>11, <1>12 DEF Next

\* The inductive invariant of RoslynServer.
THEOREM SpecIInv == Spec => []IInv
BY InitIInv, NextIInv, PTL DEF Spec

\* A server that runs has been told the workspace that is held, whichever of the
\* user, the default search, a restart and a crash came first
\* (roslynLanguageServer.ts:72-76).
THEOREM WorkspaceTold == Spec => []ServerHasWorkspace
<1>1. IInv => ServerHasWorkspace
    BY DEF IInv
<1>. QED BY <1>1, SpecIInv, PTL

\* A session that crashes is reported, and none is reported twice
\* (roslynLanguageClient.ts:98-99).
THEOREM CrashReported == Spec => []CrashReportedOnce
<1>1. IInv => CrashReportedOnce
    BY DEF IInv
<1>. QED BY <1>1, SpecIInv, PTL
=============================================================================
