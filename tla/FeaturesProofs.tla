---------------------------- MODULE FeaturesProofs ----------------------------
(***************************************************************************)
(* Proofs about Features: the flags of restores and test runs, the socket  *)
(* of the test debugger, and what the activation promises, for any         *)
(* commands, requests, machines and bounds.                                *)
(*                                                                         *)
(* Each feature has an invariant of its own, which its steps keep and the  *)
(* steps of the others leave alone.                                        *)
(***************************************************************************)
EXTENDS Features, FiniteSetTheorems, TLAPS

-----------------------------------------------------------------------------
(* The inductive invariant.                                                  *)

\* One command restores and one runs tests.
Commanded ==
    /\ Roslyn!TypeOK
    /\ \A c, d \in Commands : roslynPc[c] = "restoring" /\ roslynPc[d] = "restoring" => c = d
    /\ restoreInProgress <=> \E c \in Commands : roslynPc[c] = "restoring"
    /\ \A c, d \in Commands :
           roslynPc[c] \in {"saving", "testing"} /\ roslynPc[d] \in {"saving", "testing"} => c = d
    /\ testRunInProgress <=> \E c \in Commands : roslynPc[c] \in {"saving", "testing"}

\* The types of DotnetTest, but for the bound of the stops under way.
TestTypes ==
    /\ kind \in [Commands -> {"run", "debug", "debugInContext"}]
    /\ testPc \in [Commands -> {"idle"} \cup Test!Before \cup Test!Asking \cup Test!Session \cup Test!Ended]
    /\ subscribed \subseteq Commands
    /\ activeInstance \in Commands \cup {Nobody}
    /\ closed \subseteq Commands
    /\ listening \subseteq Commands
    /\ path \in Commands \cup {Nobody}
    /\ connection \in [Commands -> Commands \cup {Nobody}]
    /\ launched \in [Commands -> Commands \cup {Nobody}]
    /\ stopping \in [Commands -> Nat]

\* Test commands follow each other, and nobody knows a listener that does not listen
\* yet but its command, which made it the active one.
OneTest ==
    /\ \A c, d \in Commands :
           testPc[c] \notin {"idle"} \cup Test!Ended /\ testPc[d] \notin {"idle"} \cup Test!Ended => c = d
    /\ \A c \in Commands : testPc[c] \in {"idle"} \cup Test!Before =>
           /\ c \notin closed /\ c \notin listening /\ c # path /\ stopping[c] = 0
           /\ \A d \in Commands : connection[d] # c
           /\ activeInstance = c <=> testPc[c] \in {"removing", "listen"}
    /\ \A c \in Commands : testPc[c] = "running" => connection[c] # Nobody
    /\ Test!ActiveIsOpen

\* A command that ended has left two stops under way at most.
TestsOver == {c \in Commands : testPc[c] \in Test!Ended}
StopsCounted == \A c \in Commands : stopping[c] <= 2 * Cardinality(TestsOver)

Tested == TestTypes /\ OneTest /\ StopsCounted

\* A request that has not failed has an attempt left.
Requested ==
    /\ Engine!TypeOK
    /\ \A r \in Requests : request[r] # "failed" => tries[r] < Engine!MaxTries

\* Which server there is, and what belongs to it, is decided once; a change of it is
\* told from when its options were taken, and a Dev Kit beside OmniSharp came after the
\* choice.
ActivationTypes ==
    /\ machine \in MachineRecords
    /\ exports \in {"none", "null", "limited", "omnisharp", "roslyn"}
    /\ chosen \in {"none", "omnisharp", "roslyn"}
    /\ options.devKit \in BOOLEAN
Chosen ==
    /\ step \in {"closed", "dialog", "migrate", "install"} => exports = "none"
    /\ step = "install" => chosen # "none"
    /\ exports \in {"omnisharp", "roslyn"} => chosen = exports /\ machine.trusted
    /\ serverPromise # "none" => exports \in {"omnisharp", "roslyn"}
    /\ chosen = "omnisharp" /\ machine.devKit => "unseen" \in prompts
OneKindOfServer ==
    /\ omniSharp # "stopped" => exports = "omnisharp" /\ serverPromise \in {"starting", "started"}
    /\ exports = "omnisharp" =>
           /\ context = "OmniSharp"
           /\ serverPromise \in {"razor", "starting", "started", "rejected"}
           /\ servicesRegistered <=> serverPromise \in {"starting", "started"}
    /\ exports = "none" => ~servicesRegistered
    /\ exports = "roslyn" =>
           /\ serverPromise \in {"devKit", "resolve", "options", "starting", "started", "rejected"}
           /\ serverPromise = "started" => servicesRegistered
           /\ ~options.devKit /\ machine.devKit => prompts \cap {"devKit", "unseen"} # {}
           /\ serverPromise \in {"starting", "started"} =>
                  /\ context = IF options.devKit THEN "RoslynDevKit" ELSE "Roslyn"
                  /\ options.telemetryLevel # telemetry => "telemetry" \in prompts

\* What was awaited before what is awaited now has come about.
Asked ==
    /\ finished # "no" => exports \in {"omnisharp", "roslyn"}
    /\ exports = "roslyn" =>
           /\ finished \in {"server", "projects", "resolved"} => debugger = "done"
           /\ finished \in {"projects", "resolved"} => serverPromise = "started"
           /\ finished = "resolved" => projects
           /\ finished \notin {"queue", "hung", "razor"}
    /\ exports = "omnisharp" =>
           /\ finished \in {"queue", "hung", "debugger", "razor", "resolved"} => serverPromise = "started"
           /\ finished \in {"razor", "resolved"} => debugger = "done"
           /\ finished = "resolved" => razor = "done"
           /\ finished # "projects"
Activated == ActivationTypes /\ Chosen /\ OneKindOfServer /\ Asked

IInv == Commanded /\ Tested /\ Requested /\ Activated

\* What the constants are.
LEMMA Constant ==
    /\ IsFiniteSet(Commands) /\ Nobody \notin Commands
    /\ MaxStops \in Nat /\ MaxCrashes \in Nat
    /\ Machines \subseteq MachineRecords
BY FeatureAssumption

-----------------------------------------------------------------------------
(* The commands of the Roslyn server.                                        *)

\* Nothing restores or tests at first.
LEMMA InitCommanded == Init => Commanded
<1> SUFFICES ASSUME Init
             PROVE  Commanded
    OBVIOUS
<1>1. Roslyn!Init
    BY DEF Init
<1>2. Roslyn!TypeOK
  <2>1. stops \in 0 .. MaxStops
      BY <1>1, Constant DEF Roslyn!Init
  <2>. QED BY <1>1, <2>1 DEF Roslyn!Init, Roslyn!TypeOK
<1>. QED BY <1>1, <1>2 DEF Roslyn!Init, Commanded

\* A step of a command that neither enters nor leaves a restore or a test run.
LEMMA StepKeeps ==
    ASSUME Commanded, NEW c \in Commands,
           NEW l \in {"projects", "picking", "done", "refused", "failed"},
           roslynPc' = [roslynPc EXCEPT ![c] = l],
           roslynPc[c] \in {"idle", "projects", "picking"},
           UNCHANGED <<server, stops, restoreInProgress, testRunInProgress, attach, registered, event,
                       answer>>
    PROVE  Commanded'
<1>1. Roslyn!TypeOK /\ Roslyn!TypeOK'
    BY DEF Commanded, Roslyn!TypeOK, Roslyn!Awaiting, Roslyn!Ended
<1>2. \A d \in Commands : roslynPc'[d] = IF d = c THEN l ELSE roslynPc[d]
    BY <1>1 DEF Roslyn!TypeOK
<1>3. \A d \in Commands :
          /\ roslynPc'[d] = "restoring" <=> roslynPc[d] = "restoring"
          /\ roslynPc'[d] = "saving" <=> roslynPc[d] = "saving"
          /\ roslynPc'[d] = "testing" <=> roslynPc[d] = "testing"
    BY <1>2
<1>. QED BY <1>1, <1>3 DEF Commanded

\* A command that restores does so with the flag set.
LEMMA RestoreKeeps ==
    ASSUME Commanded, NEW c \in Commands, Roslyn!Restore(c), roslynPc[c] \in {"idle", "picking"},
           UNCHANGED <<server, stops, testRunInProgress, attach, registered, event, answer>>
    PROVE  Commanded'
<1>1. /\ roslynPc \in [Commands -> {"idle", "picking", "saving"} \cup Roslyn!Awaiting \cup Roslyn!Ended]
      /\ restoreInProgress \in BOOLEAN
    BY DEF Commanded, Roslyn!TypeOK
<1>2. CASE restoreInProgress
  <2>1. roslynPc' = [roslynPc EXCEPT ![c] = "refused"] /\ UNCHANGED restoreInProgress
      BY <1>2 DEF Roslyn!Restore, Roslyn!Goto
  <2>. QED BY <1>1, <2>1 DEF Commanded, Roslyn!TypeOK, Roslyn!Awaiting, Roslyn!Ended
<1>3. CASE ~restoreInProgress /\ server = "running"
  <2>1. roslynPc' = [roslynPc EXCEPT ![c] = "restoring"] /\ restoreInProgress' = TRUE
      BY <1>3 DEF Roslyn!Restore, Roslyn!SendRequest, Roslyn!Goto
  <2>. QED BY <1>1, <1>3, <2>1 DEF Commanded, Roslyn!TypeOK, Roslyn!Awaiting, Roslyn!Ended
<1>4. CASE ~restoreInProgress /\ server # "running"
  <2>1. roslynPc' = [roslynPc EXCEPT ![c] = "failed"] /\ restoreInProgress' = FALSE
      BY <1>4 DEF Roslyn!Restore, Roslyn!SendRequest, Roslyn!Goto
  <2>2. UNCHANGED restoreInProgress
      BY <1>1, <1>4, <2>1
  <2>. QED BY <2>1, <2>2, StepKeeps
<1>. QED BY <1>2, <1>3, <1>4

\* A flag is taken and given back by the command that holds it.
LEMMA NextCommanded == Commanded /\ Roslyn!Next => Commanded'
<1> SUFFICES ASSUME Commanded, Roslyn!Next
             PROVE  Commanded'
    OBVIOUS
<1>1. /\ roslynPc \in [Commands -> {"idle", "picking", "saving"} \cup Roslyn!Awaiting \cup Roslyn!Ended]
      /\ restoreInProgress \in BOOLEAN /\ testRunInProgress \in BOOLEAN
    BY DEF Commanded, Roslyn!TypeOK
<1>2. ASSUME NEW c \in Commands, Roslyn!ChooseProjectAndRestore(c) PROVE Commanded'
  <2>1. /\ roslynPc[c] = "idle"
        /\ UNCHANGED <<server, stops, restoreInProgress, testRunInProgress, attach, registered, event,
                       answer>>
      BY <1>2 DEF Roslyn!ChooseProjectAndRestore, Roslyn!flags, Roslyn!attaching
  <2>2. PICK l \in {"projects", "failed"} : roslynPc' = [roslynPc EXCEPT ![c] = l]
      BY <1>2 DEF Roslyn!ChooseProjectAndRestore, Roslyn!SendRequest, Roslyn!Goto
  <2>. QED BY <2>1, <2>2, StepKeeps
<1>3. ASSUME NEW c \in Commands, Roslyn!ProjectsArrive(c) PROVE Commanded'
    BY <1>3, StepKeeps DEF Roslyn!ProjectsArrive, Roslyn!Goto, Roslyn!flags, Roslyn!attaching
<1>4. ASSUME NEW c \in Commands, Roslyn!RestoreAll(c) PROVE Commanded'
    BY <1>4, RestoreKeeps DEF Roslyn!RestoreAll, Roslyn!attaching
<1>5. ASSUME NEW c \in Commands, Roslyn!PickProject(c) PROVE Commanded'
  <2>1. CASE Roslyn!Restore(c)
      BY <1>5, <2>1, RestoreKeeps DEF Roslyn!PickProject, Roslyn!attaching
  <2>2. CASE Roslyn!Goto(c, "done") /\ UNCHANGED restoreInProgress
      BY <1>5, <2>2, StepKeeps DEF Roslyn!PickProject, Roslyn!Goto, Roslyn!attaching
  <2>. QED BY <1>5, <2>1, <2>2 DEF Roslyn!PickProject
<1>6. ASSUME NEW c \in Commands, Roslyn!RestoreEnds(c) PROVE Commanded'
  <2>1. /\ roslynPc' = [roslynPc EXCEPT ![c] = "done"] /\ restoreInProgress' = FALSE
        /\ roslynPc[c] = "restoring"
        /\ UNCHANGED <<server, stops, testRunInProgress, attach, registered, event, answer>>
      BY <1>6 DEF Roslyn!RestoreEnds, Roslyn!Goto, Roslyn!attaching
  <2>. QED BY ZenonT(40), <1>1, <2>1 DEF Commanded, Roslyn!TypeOK, Roslyn!Awaiting, Roslyn!Ended
<1>7. ASSUME NEW c \in Commands, Roslyn!RunTests(c) PROVE Commanded'
  <2>1. /\ roslynPc[c] = "idle"
        /\ UNCHANGED <<server, stops, restoreInProgress, attach, registered, event, answer>>
      BY <1>7 DEF Roslyn!RunTests, Roslyn!attaching
  <2>2. CASE testRunInProgress
      BY <1>7, <2>1, <2>2, StepKeeps DEF Roslyn!RunTests, Roslyn!Goto
  <2>3. CASE ~testRunInProgress
    <3>1. roslynPc' = [roslynPc EXCEPT ![c] = "saving"] /\ testRunInProgress' = TRUE
        BY <1>7, <2>3 DEF Roslyn!RunTests, Roslyn!Goto
    <3>. QED BY <1>1, <2>1, <2>3, <3>1 DEF Commanded, Roslyn!TypeOK, Roslyn!Awaiting, Roslyn!Ended
  <2>. QED BY <2>2, <2>3
<1>8. ASSUME NEW c \in Commands, Roslyn!FilesSaved(c) PROVE Commanded'
  <2>1. /\ roslynPc[c] = "saving"
        /\ UNCHANGED <<server, stops, restoreInProgress, attach, registered, event, answer>>
      BY <1>8 DEF Roslyn!FilesSaved, Roslyn!attaching
  <2>2. CASE roslynPc' = [roslynPc EXCEPT ![c] = "testing"] /\ testRunInProgress' = TRUE
      BY <1>1, <2>1, <2>2 DEF Commanded, Roslyn!TypeOK, Roslyn!Awaiting, Roslyn!Ended
  <2>3. CASE roslynPc' = [roslynPc EXCEPT ![c] = "failed"] /\ testRunInProgress' = FALSE
      BY ZenonT(40), <1>1, <2>1, <2>3 DEF Commanded, Roslyn!TypeOK, Roslyn!Awaiting, Roslyn!Ended
  <2>. QED BY <1>8, <2>2, <2>3 DEF Roslyn!FilesSaved, Roslyn!Goto
<1>9. ASSUME NEW c \in Commands, Roslyn!TestsEnd(c) PROVE Commanded'
  <2>1. /\ roslynPc[c] = "testing" /\ roslynPc' = [roslynPc EXCEPT ![c] = "done"]
        /\ testRunInProgress' = FALSE
        /\ UNCHANGED <<server, stops, restoreInProgress, attach, registered, event, answer>>
      BY <1>9 DEF Roslyn!TestsEnd, Roslyn!Goto, Roslyn!attaching
  <2>. QED BY ZenonT(40), <1>1, <2>1 DEF Commanded, Roslyn!TypeOK, Roslyn!Awaiting, Roslyn!Ended
<1>10. ASSUME NEW a \in Attaches, Roslyn!DebugAttach(a) \/ Roslyn!AttachProgress(a) PROVE Commanded'
  <2>1. UNCHANGED <<server, stops, restoreInProgress, testRunInProgress, roslynPc>>
      BY <1>10 DEF Roslyn!DebugAttach, Roslyn!AttachProgress, Roslyn!StartDebuggingReturns,
                   Roslyn!SessionEvent, Roslyn!AttachAnswered, Roslyn!flags
  <2>2. Roslyn!TypeOK'
    <3>1. Roslyn!TypeOK
        BY DEF Commanded
    <3>2. CASE Roslyn!DebugAttach(a)
        BY <2>1, <3>1, <3>2 DEF Roslyn!TypeOK, Roslyn!DebugAttach
    <3>3. CASE Roslyn!StartDebuggingReturns(a)
        BY <2>1, <3>1, <3>3 DEF Roslyn!TypeOK, Roslyn!StartDebuggingReturns, Roslyn!Answer
    <3>4. CASE Roslyn!SessionEvent(a)
        BY <2>1, <3>1, <3>4 DEF Roslyn!TypeOK, Roslyn!SessionEvent
    <3>5. CASE Roslyn!AttachAnswered(a)
        BY <2>1, <3>1, <3>5 DEF Roslyn!TypeOK, Roslyn!AttachAnswered, Roslyn!Answer
    <3>. QED BY <1>10, <3>2, <3>3, <3>4, <3>5 DEF Roslyn!AttachProgress
  <2>. QED BY <2>1, <2>2 DEF Commanded
<1>11. ASSUME Roslyn!ServerStops PROVE Commanded'
  <2>1. \A c \in Commands :
            roslynPc'[c] = IF roslynPc[c] \in Roslyn!Awaiting THEN "failed" ELSE roslynPc[c]
      BY <1>11 DEF Roslyn!ServerStops
  <2>2. Roslyn!TypeOK'
    <3>1. roslynPc' \in [Commands -> {"idle", "picking", "saving"} \cup Roslyn!Awaiting \cup Roslyn!Ended]
        BY <1>1, <1>11 DEF Roslyn!ServerStops, Roslyn!Ended
    <3>2. stops' \in 0 .. MaxStops /\ server' = "stopped"
        BY <1>11, Constant DEF Commanded, Roslyn!TypeOK, Roslyn!ServerStops
    <3>3. restoreInProgress' \in BOOLEAN /\ testRunInProgress' \in BOOLEAN
        BY <1>11 DEF Roslyn!ServerStops
    <3>4. attach' \in [Attaches -> {"idle", "starting", "waiting", "answered", "dropped"}]
        BY <1>11 DEF Commanded, Roslyn!TypeOK, Roslyn!ServerStops
    <3>. QED BY <1>11, <3>1, <3>2, <3>3, <3>4 DEF Commanded, Roslyn!TypeOK, Roslyn!ServerStops
  <2>3. /\ restoreInProgress' <=> \E c \in Commands : roslynPc'[c] = "restoring"
        /\ \A c, d \in Commands : roslynPc'[c] = "restoring" /\ roslynPc'[d] = "restoring" => c = d
      BY <1>11, <2>1 DEF Commanded, Roslyn!ServerStops, Roslyn!Awaiting
  <2>4. \A c, d \in Commands :
            roslynPc'[c] \in {"saving", "testing"} /\ roslynPc'[d] \in {"saving", "testing"} => c = d
      BY <2>1 DEF Commanded, Roslyn!Awaiting
  <2>5. testRunInProgress' <=> \E c \in Commands : roslynPc'[c] \in {"saving", "testing"}
      BY <1>11, <2>1 DEF Commanded, Roslyn!ServerStops, Roslyn!Awaiting
  <2>. QED BY <2>2, <2>3, <2>4, <2>5 DEF Commanded
<1>12. ASSUME Roslyn!ServerStarts PROVE Commanded'
    BY <1>12 DEF Roslyn!ServerStarts, Commanded, Roslyn!TypeOK, Roslyn!flags, Roslyn!attaching
<1>. QED BY <1>2, <1>3, <1>4, <1>5, <1>6, <1>7, <1>8, <1>9, <1>10, <1>11, <1>12
         DEF Roslyn!Next, Roslyn!Progress

-----------------------------------------------------------------------------
(* The test commands of OmniSharp.                                           *)

\* No test command has begun.
LEMMA InitTested == Init => Tested
<1> SUFFICES ASSUME Init
             PROVE  Tested
    OBVIOUS
<1>1. Test!Init
    BY DEF Init
<1>2. TestTypes
    BY <1>1 DEF Test!Init, TestTypes
<1>3. OneTest
    BY <1>1, Constant DEF Test!Init, OneTest, Test!ActiveIsOpen, Test!Before, Test!Ended
<1>4. StopsCounted
  <2>1. IsFiniteSet(TestsOver)
      BY Constant, FS_Subset DEF TestsOver
  <2>2. Cardinality(TestsOver) \in Nat
      BY <2>1, FS_CardinalityType
  <2>. QED BY <1>1, <2>2 DEF Test!Init, StopsCounted
<1>. QED BY <1>2, <1>3, <1>4 DEF Tested

\* The number of commands that ended.
LEMMA OverFinite == IsFiniteSet(TestsOver) /\ Cardinality(TestsOver) \in Nat
                        /\ Cardinality(TestsOver) <= Cardinality(Commands)
<1>1. TestsOver \subseteq Commands
    BY DEF TestsOver
<1>. QED BY <1>1, Constant, FS_Subset, FS_CardinalityType

\* No command leaves its end, and none adds a stop before it.
Counted ==
    /\ TestsOver \subseteq TestsOver'
    /\ \A c \in Commands : stopping'[c] <= stopping[c]

\* The stops under way stay counted when no command gets one more.
LEMMA CountedKeeps ==
    ASSUME TestTypes, TestTypes', StopsCounted, Counted
    PROVE  StopsCounted'
<1>1. /\ Cardinality(TestsOver) <= Cardinality(TestsOver')
      /\ Cardinality(TestsOver) \in Nat /\ Cardinality(TestsOver') \in Nat
  <2>1. IsFiniteSet(TestsOver')
    <3>1. TestsOver' \subseteq Commands
        BY DEF TestsOver
    <3>. QED BY <3>1, Constant, FS_Subset
  <2>. QED BY <2>1, OverFinite, FS_Subset, FS_CardinalityType DEF Counted
<1> SUFFICES ASSUME NEW c \in Commands
             PROVE  stopping'[c] <= 2 * Cardinality(TestsOver')
    BY DEF StopsCounted
<1>2. stopping'[c] <= stopping[c] /\ stopping[c] <= 2 * Cardinality(TestsOver)
    BY DEF Counted, StopsCounted
<1>3. stopping'[c] \in Nat /\ stopping[c] \in Nat
    BY DEF TestTypes
<1>. QED BY <1>1, <1>2, <1>3

\* What a step other than the end of a session keeps.
Follows == TestTypes' /\ OneTest' /\ Counted

\* The steps of a test but the end of its session: each moves one command on.
LEMMA StepFollows ==
    ASSUME TestTypes, OneTest, Test!Next,
           \A c \in Commands : ~Test!OnDebuggingStopped(c)
    PROVE  Follows
<1>1. TestTypes /\ Nobody \notin Commands
    BY Constant
<1>2. OneTest
    OBVIOUS
<1> USE DEF Follows, Counted
<1>4. ASSUME NEW c \in Commands, Test!Start(c) PROVE Follows
  <2>1. TestTypes'
      BY <1>1, <1>4 DEF TestTypes, Test!Start, Test!Goto, Test!sockets, Test!debuggers, Test!Before, Test!Asking, Test!Session, Test!Ended
  <2>2. OneTest'
      BY <1>1, <1>2, <1>4 DEF TestTypes, Test!Start, Test!Goto, Test!sockets, Test!debuggers, OneTest, Test!ActiveIsOpen, Test!Before, Test!Asking, Test!Session, Test!Ended
  <2>3. Counted
      BY <1>1, <1>4 DEF TestTypes, TestsOver, Test!Start, Test!Goto, Test!sockets, Test!debuggers, Test!Ended
  <2>. QED BY <2>1, <2>2, <2>3
<1>5. ASSUME NEW c \in Commands, Test!Saved(c) PROVE Follows
  <2>1. TestTypes'
      BY <1>1, <1>5 DEF TestTypes, Test!Saved, Test!Goto, Test!sockets, Test!debuggers, Test!Before, Test!Asking, Test!Session, Test!Ended
  <2>2. OneTest'
      BY <1>1, <1>2, <1>5 DEF TestTypes, Test!Saved, Test!Goto, Test!sockets, Test!debuggers, OneTest, Test!ActiveIsOpen, Test!Before, Test!Asking, Test!Session, Test!Ended
  <2>3. Counted
      BY <1>1, <1>5 DEF TestTypes, TestsOver, Test!Saved, Test!Goto, Test!sockets, Test!debuggers, Test!Ended
  <2>. QED BY <2>1, <2>2, <2>3
<1>6. ASSUME NEW c \in Commands, Test!ProjectOfRun(c) PROVE Follows
  <2>1. TestTypes'
      BY <1>1, <1>6 DEF TestTypes, Test!ProjectOfRun, Test!Goto, Test!sockets, Test!debuggers, Test!Before, Test!Asking, Test!Session, Test!Ended
  <2>2. OneTest'
      BY <1>1, <1>2, <1>6 DEF TestTypes, Test!ProjectOfRun, Test!Goto, Test!sockets, Test!debuggers, OneTest, Test!ActiveIsOpen, Test!Before, Test!Asking, Test!Session, Test!Ended
  <2>3. Counted
      BY <1>1, <1>6 DEF TestTypes, TestsOver, Test!ProjectOfRun, Test!Goto, Test!sockets, Test!debuggers, Test!Ended
  <2>. QED BY <2>1, <2>2, <2>3
<1>7. ASSUME NEW c \in Commands, Test!TestsEnd(c) PROVE Follows
  <2>1. TestTypes'
      BY <1>1, <1>7 DEF TestTypes, Test!TestsEnd, Test!Goto, Test!sockets, Test!debuggers, Test!Before, Test!Asking, Test!Session, Test!Ended
  <2>2. OneTest'
      BY <1>1, <1>2, <1>7 DEF TestTypes, Test!TestsEnd, Test!Goto, Test!sockets, Test!debuggers, OneTest, Test!ActiveIsOpen, Test!Before, Test!Asking, Test!Session, Test!Ended
  <2>3. Counted
      BY <1>1, <1>7 DEF TestTypes, TestsOver, Test!TestsEnd, Test!Goto, Test!sockets, Test!debuggers, Test!Ended
  <2>. QED BY <2>1, <2>2, <2>3
<1>8. ASSUME NEW c \in Commands, Test!ProjectOfDebug(c) PROVE Follows
  <2>1. TestTypes'
      BY <1>1, <1>8 DEF TestTypes, Test!ProjectOfDebug, Test!Goto, Test!sockets, Test!debuggers, Test!Before, Test!Asking, Test!Session, Test!Ended, Test!CloseActive, Test!Close
  <2>2. OneTest'
      BY <1>1, <1>2, <1>8 DEF TestTypes, Test!ProjectOfDebug, Test!Goto, Test!sockets, Test!debuggers, OneTest, Test!ActiveIsOpen, Test!Before, Test!Asking, Test!Session, Test!Ended, Test!CloseActive, Test!Close
  <2>3. Counted
      BY <1>1, <1>8 DEF TestTypes, TestsOver, Test!ProjectOfDebug, Test!Goto, Test!sockets, Test!debuggers, Test!Ended, Test!CloseActive, Test!Close
  <2>. QED BY <2>1, <2>2, <2>3
<1>9. ASSUME NEW c \in Commands, Test!RemoveSocketFile(c) PROVE Follows
  <2>1. TestTypes'
      BY <1>1, <1>9 DEF TestTypes, Test!RemoveSocketFile, Test!Goto, Test!sockets, Test!debuggers, Test!Before, Test!Asking, Test!Session, Test!Ended
  <2>2. OneTest'
      BY <1>1, <1>2, <1>9 DEF TestTypes, Test!RemoveSocketFile, Test!Goto, Test!sockets, Test!debuggers, OneTest, Test!ActiveIsOpen, Test!Before, Test!Asking, Test!Session, Test!Ended
  <2>3. Counted
      BY <1>1, <1>9 DEF TestTypes, TestsOver, Test!RemoveSocketFile, Test!Goto, Test!sockets, Test!debuggers, Test!Ended
  <2>. QED BY <2>1, <2>2, <2>3
<1>10. ASSUME NEW c \in Commands, Test!Listen(c) PROVE Follows
  <2>1. TestTypes'
      BY <1>1, <1>10 DEF TestTypes, Test!Listen, Test!Goto, Test!sockets, Test!debuggers, Test!Before, Test!Asking, Test!Session, Test!Ended
  <2>2. OneTest'
      BY <1>1, <1>2, <1>10 DEF TestTypes, Test!Listen, Test!Goto, Test!sockets, Test!debuggers, OneTest, Test!ActiveIsOpen, Test!Before, Test!Asking, Test!Session, Test!Ended
  <2>3. Counted
      BY <1>1, <1>10 DEF TestTypes, TestsOver, Test!Listen, Test!Goto, Test!sockets, Test!debuggers, Test!Ended
  <2>. QED BY <2>1, <2>2, <2>3
<1>11. ASSUME NEW c \in Commands, Test!StartInfoArrives(c) PROVE Follows
  <2>1. TestTypes'
      BY <1>1, <1>11 DEF TestTypes, Test!StartInfoArrives, Test!Goto, Test!sockets, Test!debuggers, Test!Before, Test!Asking, Test!Session, Test!Ended, Test!CloseOwn, Test!Close
  <2>2. OneTest'
      BY <1>1, <1>2, <1>11 DEF TestTypes, Test!StartInfoArrives, Test!Goto, Test!sockets, Test!debuggers, OneTest, Test!ActiveIsOpen, Test!Before, Test!Asking, Test!Session, Test!Ended, Test!CloseOwn, Test!Close
  <2>3. Counted
      BY <1>1, <1>11 DEF TestTypes, TestsOver, Test!StartInfoArrives, Test!Goto, Test!sockets, Test!debuggers, Test!Ended, Test!CloseOwn, Test!Close
  <2>. QED BY <2>1, <2>2, <2>3
<1>12. ASSUME NEW c \in Commands, Test!StartDebugging(c) PROVE Follows
  <2>1. TestTypes'
      BY <1>1, <1>12 DEF TestTypes, Test!StartDebugging, Test!Goto, Test!sockets, Test!debuggers, Test!Before, Test!Asking, Test!Session, Test!Ended
  <2>2. OneTest'
      BY <1>1, <1>2, <1>12 DEF TestTypes, Test!StartDebugging, Test!Goto, Test!sockets, Test!debuggers, OneTest, Test!ActiveIsOpen, Test!Before, Test!Asking, Test!Session, Test!Ended
  <2>3. Counted
      BY <1>1, <1>12 DEF TestTypes, TestsOver, Test!StartDebugging, Test!Goto, Test!sockets, Test!debuggers, Test!Ended
  <2>. QED BY <2>1, <2>2, <2>3
<1>13. ASSUME NEW c \in Commands, Test!Connect(c) PROVE Follows
  <2>1. TestTypes'
      BY <1>1, <1>13 DEF TestTypes, Test!Connect, Test!Goto, Test!sockets, Test!debuggers, Test!Before, Test!Asking, Test!Session, Test!Ended
  <2>2. OneTest'
      BY <1>1, <1>2, <1>13 DEF TestTypes, Test!Connect, Test!Goto, Test!sockets, Test!debuggers, OneTest, Test!ActiveIsOpen, Test!Before, Test!Asking, Test!Session, Test!Ended
  <2>3. Counted
      BY <1>1, <1>13 DEF TestTypes, TestsOver, Test!Connect, Test!Goto, Test!sockets, Test!debuggers, Test!Ended
  <2>. QED BY <2>1, <2>2, <2>3
<1>14. ASSUME NEW c \in Commands, Test!ConnectFails(c) PROVE Follows
  <2>1. TestTypes'
      BY <1>1, <1>14 DEF TestTypes, Test!ConnectFails, Test!Goto, Test!sockets, Test!debuggers, Test!Before, Test!Asking, Test!Session, Test!Ended
  <2>2. OneTest'
      BY <1>1, <1>2, <1>14 DEF TestTypes, Test!ConnectFails, Test!Goto, Test!sockets, Test!debuggers, OneTest, Test!ActiveIsOpen, Test!Before, Test!Asking, Test!Session, Test!Ended
  <2>3. Counted
      BY <1>1, <1>14 DEF TestTypes, TestsOver, Test!ConnectFails, Test!Goto, Test!sockets, Test!debuggers, Test!Ended
  <2>. QED BY <2>1, <2>2, <2>3
<1>15. ASSUME NEW c \in Commands, Test!OnProcessLaunched(c) PROVE Follows
  <2>1. TestTypes'
      BY <1>1, <1>15 DEF TestTypes, Test!OnProcessLaunched, Test!Goto, Test!sockets, Test!debuggers, Test!Before, Test!Asking, Test!Session, Test!Ended
  <2>2. OneTest'
      BY <1>1, <1>2, <1>15 DEF TestTypes, Test!OnProcessLaunched, Test!Goto, Test!sockets, Test!debuggers, OneTest, Test!ActiveIsOpen, Test!Before, Test!Asking, Test!Session, Test!Ended
  <2>3. Counted
      BY <1>1, <1>15 DEF TestTypes, TestsOver, Test!OnProcessLaunched, Test!Goto, Test!sockets, Test!debuggers, Test!Ended
  <2>. QED BY <2>1, <2>2, <2>3
<1>16. ASSUME NEW c \in Commands, Test!StopEnds(c) PROVE Follows
  <2>1. TestTypes'
      BY <1>1, <1>16 DEF TestTypes, Test!StopEnds, Test!Goto, Test!sockets, Test!debuggers, Test!Before, Test!Asking, Test!Session, Test!Ended, Test!CloseOwn, Test!Close
  <2>2. OneTest'
      BY <1>1, <1>2, <1>16 DEF TestTypes, Test!StopEnds, Test!Goto, Test!sockets, Test!debuggers, OneTest, Test!ActiveIsOpen, Test!Before, Test!Asking, Test!Session, Test!Ended, Test!CloseOwn, Test!Close
  <2>3. Counted
      BY <1>1, <1>16 DEF TestTypes, TestsOver, Test!StopEnds, Test!Goto, Test!sockets, Test!debuggers, Test!Ended, Test!CloseOwn, Test!Close
  <2>. QED BY <2>1, <2>2, <2>3
<1>. QED BY <1>4, <1>5, <1>6, <1>7, <1>8, <1>9, <1>10, <1>11, <1>12, <1>13, <1>14, <1>15, <1>16 DEF Test!Next, Test!Step

\* The end of a session adds two stops at most, and is one of a command that has
\* ended from then on.
LEMMA SessionEndKeeps ==
    ASSUME Tested, NEW c \in Commands, Test!OnDebuggingStopped(c)
    PROVE  Tested'
<1>1. /\ TestTypes /\ OneTest /\ StopsCounted
      /\ Nobody \notin Commands
    BY Constant DEF Tested
<1> DEFINE l == connection[c]
<1>2. PICK n \in 1 .. 2 :
          stopping' = [stopping EXCEPT ![l] = IF l \in closed THEN @ ELSE @ + n]
    BY DEF Test!OnDebuggingStopped
<1>3. /\ testPc[c] = "running" /\ testPc' = [testPc EXCEPT ![c] = "done"]
      /\ UNCHANGED <<kind, subscribed, activeInstance, closed, listening, path, connection, launched>>
    BY DEF Test!OnDebuggingStopped, Test!Goto, Test!sockets
<1>4. l \in Commands /\ testPc[l] \notin {"idle"} \cup Test!Before
  <2>1. l \in Commands
      BY <1>1, <1>3 DEF TestTypes, OneTest
  <2>. QED BY <1>1, <2>1 DEF OneTest
<1> HIDE DEF l
<1>5. \A d \in Commands : stopping'[d] \in Nat /\ stopping'[d] <= stopping[d] + 2
                              /\ (d # l => stopping'[d] = stopping[d])
    BY <1>1, <1>2, <1>4 DEF TestTypes
<1>6. TestTypes'
    BY <1>1, <1>2, <1>3, <1>4 DEF TestTypes, Test!Before, Test!Asking, Test!Session, Test!Ended
<1>7. OneTest'
    BY <1>1, <1>3, <1>4, <1>5
    DEF TestTypes, OneTest, Test!ActiveIsOpen, Test!Before, Test!Asking, Test!Session, Test!Ended
<1>8. StopsCounted'
  <2>1. c \notin TestsOver /\ TestsOver' = TestsOver \cup {c}
      BY <1>1, <1>3 DEF TestsOver, TestTypes, Test!Ended
  <2>2. Cardinality(TestsOver') = Cardinality(TestsOver) + 1
      BY <2>1, OverFinite, FS_AddElement
  <2>3. ASSUME NEW d \in Commands PROVE stopping'[d] <= 2 * Cardinality(TestsOver')
    <3>1. stopping[d] \in Nat /\ stopping[d] <= 2 * Cardinality(TestsOver)
        BY <1>1 DEF TestTypes, StopsCounted
    <3>. QED BY <1>5, <2>2, <3>1, OverFinite
  <2>. QED BY <2>3 DEF StopsCounted
<1>. QED BY <1>6, <1>7, <1>8 DEF Tested

\* A session that ends leaves two more stops at most, and counts as one more command.
LEMMA NextTested == Tested /\ Test!Next => Tested'
<1> SUFFICES ASSUME Tested, Test!Next
             PROVE  Tested'
    OBVIOUS
<1>1. CASE \E c \in Commands : Test!OnDebuggingStopped(c)
    BY <1>1, SessionEndKeeps
<1>2. CASE \A c \in Commands : ~Test!OnDebuggingStopped(c)
    BY <1>2, StepFollows, CountedKeeps DEF Tested, Follows
<1>. QED BY <1>1, <1>2

-----------------------------------------------------------------------------
(* The requests to the OmniSharp engine.                                     *)

\* No request was sent.
LEMMA InitRequested == Init => Requested
<1> SUFFICES ASSUME Init
             PROVE  Requested
    OBVIOUS
<1>1. Engine!Init
    BY DEF Init
<1>2. crashes \in 0 .. MaxCrashes /\ tries \in [Requests -> 0 .. Engine!MaxTries]
    BY <1>1, Constant DEF Engine!Init, Engine!MaxTries
<1>3. Engine!TypeOK
    BY <1>1, <1>2 DEF Engine!Init, Engine!TypeOK
<1>4. \A r \in Requests : tries[r] < Engine!MaxTries
    BY <1>1 DEF Engine!Init, Engine!MaxTries
<1>. QED BY <1>3, <1>4 DEF Requested

\* A request is tried again only while it has an attempt left.
LEMMA NextRequested == Requested /\ Engine!Next => Requested'
<1> SUFFICES ASSUME Requested, Engine!Next
             PROVE  Requested'
    OBVIOUS
<1>1. Engine!TypeOK /\ \A r \in Requests : request[r] # "failed" => tries[r] < Engine!MaxTries
    BY DEF Requested
<1> USE DEF Requested, Engine!TypeOK, Engine!requests
<1>2. CASE Engine!Start \/ Engine!Stop \/ Engine!ReadyAnswered \/ Engine!Started \/ Engine!ProjectsLoaded
    BY <1>1, <1>2
    DEF Engine!Start, Engine!Stop, Engine!ReadyAnswered, Engine!Started, Engine!ProjectsLoaded
<1>3. CASE Engine!Crash
  <2>1. crashes' \in 0 .. MaxCrashes
      BY <1>1, <1>3, Constant DEF Engine!Crash
  <2>2. initializeTask' \in {"none", "asking", "done", "failed"} /\ ready' \in BOOLEAN /\ client' = "starting"
      BY <1>1, <1>3 DEF Engine!Crash
  <2>. QED BY <1>1, <1>3, <2>1, <2>2 DEF Engine!Crash
<1>4. ASSUME NEW r \in Requests, Engine!MakeRequest(r) PROVE Requested'
    BY <1>1, <1>4 DEF Engine!MakeRequest, Engine!Goto
<1>5. ASSUME NEW r \in Requests, Engine!Initialized(r) PROVE Requested'
    BY <1>1, <1>5 DEF Engine!Initialized, Engine!Goto
<1>6. ASSUME NEW r \in Requests, Engine!Answered(r) PROVE Requested'
    BY <1>1, <1>6 DEF Engine!Answered, Engine!Goto
<1>7. ASSUME NEW r \in Requests, Engine!Rejected(r) PROVE Requested'
    BY <1>1, <1>7 DEF Engine!Rejected, Engine!Goto
<1>8. ASSUME NEW r \in Requests, Engine!RejectedByCrash(r) PROVE Requested'
    BY <1>1, <1>8 DEF Engine!RejectedByCrash, Engine!Goto
<1>9. ASSUME NEW r \in Requests, Engine!Catch(r) PROVE Requested'
  <2>1. tries[r] \in 0 .. 4
      BY <1>1, <1>9 DEF Engine!Catch, Engine!MaxTries
  <2>2. CASE error[r] = "modified"
      BY <1>1, <1>9, <2>1, <2>2 DEF Engine!Catch, Engine!Again, Engine!Goto, Engine!MaxTries
  <2>3. CASE error[r] # "modified"
      BY <1>1, <1>9, <2>1, <2>3 DEF Engine!Catch, Engine!Again, Engine!Goto, Engine!MaxTries
  <2>. QED BY <2>2, <2>3
<1>. QED BY <1>2, <1>3, <1>4, <1>5, <1>6, <1>7, <1>8, <1>9 DEF Engine!Next

-----------------------------------------------------------------------------
(* The activation.                                                           *)

\* The extension is not activated yet.
LEMMA InitActivated == Init => Activated
<1> SUFFICES ASSUME Init
             PROVE  Activated
    OBVIOUS
<1>1. Activating!Init
    BY DEF Init
<1>. QED BY <1>1, Constant
     DEF Activating!Init, Activating!NoOptions, Activated, ActivationTypes, Chosen, OneKindOfServer, Asked

\* A record of a machine stays one when one of its Boolean fields changes.
LEMMA MachineKeeps ==
    ASSUME machine \in MachineRecords
    PROVE  /\ [machine EXCEPT !.oldRuntimeExtension = FALSE] \in MachineRecords
           /\ [machine EXCEPT !.trusted = TRUE] \in MachineRecords
           /\ [machine EXCEPT !.devKit = TRUE] \in MachineRecords
           /\ machine.devKit \in BOOLEAN /\ machine.trusted \in BOOLEAN
           /\ [machine EXCEPT !.devKit = TRUE].trusted = machine.trusted
BY DEF MachineRecords

\* A restarted extension host is as at first, but for its machine.
LEMMA RestartKeeps ==
    ASSUME Activating!Restarted, machine' \in MachineRecords
    PROVE  Activated'
BY DEF Activating!Restarted, Activating!NoOptions, Activated, ActivationTypes, Chosen, OneKindOfServer, Asked

\* What the installation of the packages leads to.
LEMMA InstalledKeeps ==
    ASSUME Activated, Activating!Installed
    PROVE  Activated'
<1>1. ActivationTypes /\ Chosen /\ OneKindOfServer /\ Asked
    BY DEF Activated
<1>2. /\ exports = "none" /\ serverPromise = "none" /\ finished = "no" /\ omniSharp = "stopped"
      /\ chosen \in {"omnisharp", "roslyn"} /\ step = "install"
      /\ ~servicesRegistered
      /\ UNCHANGED <<machine, chosen, omniSharp, servicesRegistered, finished, prompts, projects>>
    BY <1>1 DEF Activating!Installed, ActivationTypes, Chosen, OneKindOfServer, Asked
<1>3. machine' \in MachineRecords /\ machine.devKit \in BOOLEAN
    BY <1>1, <1>2, MachineKeeps DEF ActivationTypes
<1>4. Asked'
    BY <1>2 DEF Asked
<1>5. CASE step' = "rejected" /\ UNCHANGED <<exports, context, serverPromise, razor, debugger, options>>
    BY <1>1, <1>2, <1>3, <1>4, <1>5 DEF Activated, ActivationTypes, Chosen, OneKindOfServer
<1>6. CASE /\ step' = "returned"
           /\ exports' = IF machine.trusted THEN chosen ELSE "limited"
           /\ context' = CASE exports' = "limited" -> "Limited"
                           [] exports' = "omnisharp" -> "OmniSharp"
                           [] OTHER -> context
           /\ serverPromise' = CASE exports' = "limited" -> "none"
                                 [] exports' = "omnisharp" -> "razor"
                                 [] OTHER -> "devKit"
           /\ options' = [Activating!NoOptions EXCEPT !.devKit = machine.devKit]
  <2>1. options'.devKit = machine.devKit
      BY <1>6 DEF Activating!NoOptions
  <2>2. ActivationTypes'
      BY <1>1, <1>2, <1>3, <1>6, <2>1 DEF ActivationTypes
  <2>3. Chosen'
      BY <1>1, <1>2, <1>6 DEF Chosen
  <2>4. OneKindOfServer'
      BY <1>1, <1>2, <1>6, <2>1 DEF OneKindOfServer
  <2>. QED BY <1>4, <2>2, <2>3, <2>4 DEF Activated
<1>. QED BY <1>5, <1>6 DEF Activating!Installed

\* What the activation decides stays decided.
LEMMA NextActivated == Activated /\ Activating!Next => Activated'
<1> SUFFICES ASSUME Activated, Activating!Next
             PROVE  Activated'
    OBVIOUS
<1>1. ActivationTypes /\ Chosen /\ OneKindOfServer /\ Asked
    BY DEF Activated
<1>2. machine \in MachineRecords
    BY <1>1 DEF ActivationTypes
<1> USE DEF Activated, ActivationTypes, Chosen, OneKindOfServer, Asked,
            Activating!StartUnchanged, Activating!ActivationUnchanged, Activating!RoslynUnchanged,
            Activating!OmniSharpUnchanged, Activating!OmniSharpStepUnchanged
<1>3. CASE Activating!Activate
    BY <1>1, <1>3 DEF Activating!Activate
<1>4. CASE Activating!RuntimeExtension
  <2>1. CASE machine' = [machine EXCEPT !.oldRuntimeExtension = FALSE] /\ Activating!Restarted
      BY <1>2, <2>1, RestartKeeps, MachineKeeps
  <2>2. CASE step' = "rejected" /\ UNCHANGED <<machine, chosen, exports, prompts>> /\ Activating!StartUnchanged
      BY <1>1, <2>2
  <2>. QED BY <1>4, <2>1, <2>2 DEF Activating!RuntimeExtension
<1>5. CASE Activating!Migrated
    BY <1>1, <1>5 DEF Activating!Migrated, Activating!UseOmnisharpServer
<1>6. CASE Activating!Installed
    BY <1>6, InstalledKeeps
<1>7. CASE Activating!GrantTrust
    BY <1>2, <1>7, RestartKeeps, MachineKeeps DEF Activating!GrantTrust
<1>8. CASE Activating!DevKitActivated
    BY <1>1, <1>8 DEF Activating!DevKitActivated
<1>9. CASE Activating!ResolveHost
    BY <1>1, <1>9 DEF Activating!ResolveHost
<1>10. CASE Activating!PutOptions
    BY <1>1, <1>10 DEF Activating!PutOptions, Activating!ServerExecutableOptions
<1>11. CASE Activating!RoslynStarted
    BY <1>1, <1>11 DEF Activating!RoslynStarted
<1>12. CASE Activating!ProjectInitializationComplete
    BY <1>1, <1>12 DEF Activating!ProjectInitializationComplete
<1>13. CASE Activating!RazorDownloaded
    BY <1>1, <1>13 DEF Activating!RazorDownloaded
<1>14. CASE Activating!StartOmniSharp
    BY <1>1, <1>14 DEF Activating!StartOmniSharp, Activating!QueuesLeft
<1>15. CASE Activating!OmniSharpStarted
    BY <1>1, <1>15 DEF Activating!OmniSharpStarted
<1>16. CASE Activating!OmniSharpStops
    BY <1>1, <1>16 DEF Activating!OmniSharpStops, Activating!QueuesLeft
<1>17. CASE Activating!RazorActivated
    BY <1>1, <1>17 DEF Activating!RazorActivated
<1>18. CASE Activating!DebuggerActivated
    BY <1>1, <1>18 DEF Activating!DebuggerActivated
<1>19. CASE Activating!AskInitialization
    BY <1>1, <1>19 DEF Activating!AskInitialization
<1>20. CASE Activating!InitializationFinished
  <2>1. CASE Activating!Done /\ finished' = Activating!AwaitsNext
      BY <1>1, <1>20, <2>1 DEF Activating!InitializationFinished, Activating!Done, Activating!AwaitsNext
  <2>2. CASE finished = "queue" /\ Activating!QueuesLeft
      BY <1>1, <1>20, <2>2 DEF Activating!InitializationFinished, Activating!QueuesLeft
  <2>3. CASE Activating!Rejected /\ finished' = "rejected"
      BY <1>1, <1>20, <2>3 DEF Activating!InitializationFinished, Activating!Rejected
  <2>. QED BY <1>20, <2>1, <2>2, <2>3 DEF Activating!InitializationFinished
<1>21. CASE Activating!TelemetryChanged
    BY <1>1, <1>21 DEF Activating!TelemetryChanged, Activating!Listening
<1>22. CASE Activating!DevKitInstalled
  <2>1. machine' \in MachineRecords /\ machine'.trusted = machine.trusted
      BY <1>2, <1>22, MachineKeeps DEF Activating!DevKitInstalled
  <2>. QED BY <1>1, <1>22, <2>1 DEF Activating!DevKitInstalled, Activating!Listening
<1>. QED BY <1>3, <1>4, <1>5, <1>6, <1>7, <1>8, <1>9, <1>10, <1>11, <1>12, <1>13, <1>14, <1>15, <1>16,
            <1>17, <1>18, <1>19, <1>20, <1>21, <1>22
         DEF Activating!Next, Activating!System

-----------------------------------------------------------------------------
(* All features.                                                             *)

\* The features start in their initial states.
LEMMA InitIInv == Init => IInv
BY InitCommanded, InitTested, InitRequested, InitActivated DEF IInv

\* The steps of the other features change nothing of a feature.
LEMMA Rests ==
    ASSUME IInv
    PROVE  /\ UNCHANGED roslynVars => Commanded'
           /\ UNCHANGED testVars => Tested'
           /\ UNCHANGED engineVars => Requested'
           /\ UNCHANGED activationVars => Activated'
<1>1. ASSUME UNCHANGED roslynVars PROVE Commanded'
    BY <1>1 DEF IInv, roslynVars, Commanded, Roslyn!TypeOK
<1>2. ASSUME UNCHANGED testVars PROVE Tested'
    BY <1>2 DEF IInv, testVars, Tested, TestTypes, OneTest, StopsCounted, TestsOver, Test!ActiveIsOpen
<1>3. ASSUME UNCHANGED engineVars PROVE Requested'
    BY <1>3 DEF IInv, engineVars, Requested, Engine!TypeOK
<1>4. ASSUME UNCHANGED activationVars PROVE Activated'
    BY <1>4 DEF IInv, activationVars, Activated, ActivationTypes, Chosen, OneKindOfServer, Asked
<1>. QED BY <1>1, <1>2, <1>3, <1>4

\* A step of one feature keeps its invariant and leaves those of the others alone.
LEMMA NextIInv == IInv /\ [Next]_vars => IInv'
<1> SUFFICES ASSUME IInv, [Next]_vars
             PROVE  IInv'
    OBVIOUS
<1>1. Commanded /\ Tested /\ Requested /\ Activated
    BY DEF IInv
<1>2. CASE feature = "roslynCommands" /\ Roslyn!Next
           /\ UNCHANGED <<testVars, engineVars, launchVars, activationVars>>
    BY <1>1, <1>2, Rests, NextCommanded DEF IInv
<1>3. CASE feature = "dotnetTest" /\ Test!Next
           /\ UNCHANGED <<roslynVars, engineVars, launchVars, activationVars>>
    BY <1>1, <1>3, Rests, NextTested DEF IInv
<1>4. CASE feature = "lspEngine" /\ Engine!Next
           /\ UNCHANGED <<roslynVars, testVars, launchVars, activationVars>>
    BY <1>1, <1>4, Rests, NextRequested DEF IInv
<1>5. CASE feature = "omniSharpLaunch" /\ Launch!Next
           /\ UNCHANGED <<roslynVars, testVars, engineVars, activationVars>>
    BY <1>1, <1>5, Rests DEF IInv
<1>6. CASE feature = "activation" /\ Activating!Next
           /\ UNCHANGED <<roslynVars, testVars, engineVars, launchVars>>
    BY <1>1, <1>6, Rests, NextActivated DEF IInv
<1>7. CASE UNCHANGED vars
    BY <1>7, Rests DEF IInv, vars
<1>. QED BY <1>2, <1>3, <1>4, <1>5, <1>6, <1>7 DEF Next

\* The invariant holds in every behaviour.
THEOREM SpecIInv == Spec => []IInv
BY InitIInv, NextIInv, PTL DEF Spec

\* A set whose elements are all one has one at most.
LEMMA OneAtMost ==
    ASSUME NEW S, \A x, y \in S : x = y
    PROVE  Cardinality(S) <= 1
<1>1. CASE S = {}
    BY <1>1, FS_EmptySet
<1>2. CASE S # {}
  <2>1. PICK x : x \in S
      BY <1>2
  <2>2. S = {x}
      BY <2>1
  <2>. QED BY <2>2, FS_Singleton
<1>. QED BY <1>1, <1>2

\* The server restores for one command and runs tests for one command at a time, and
\* the flag of each is set exactly while it does, whatever fails, stops and starts
\* (restore.ts:76-93, unitTesting.ts:71-78).
THEOREM FlagsCorrect == Spec => []FlagsAreExact
<1>1. ASSUME IInv PROVE FlagsAreExact
  <2>1. Cardinality({c \in Commands : roslynPc[c] = "restoring"}) <= 1
      BY <1>1, OneAtMost DEF IInv, Commanded
  <2>2. Cardinality({c \in Commands : roslynPc[c] \in {"saving", "testing"}}) <= 1
      BY <1>1, OneAtMost DEF IInv, Commanded
  <2>3. Roslyn!FlagsAreExact
    <3>1. /\ restoreInProgress <=> \E c \in Commands : roslynPc[c] = "restoring"
          /\ testRunInProgress <=> \E c \in Commands : roslynPc[c] \in {"saving", "testing"}
        BY <1>1 DEF IInv, Commanded
    <3>. QED BY <2>1, <2>2, <3>1 DEF Roslyn!FlagsAreExact, Roslyn!Cardinality, Cardinality
  <2>4. Test!TypeOK
    <3>1. stopping \in [Commands -> 0 .. 2 * Cardinality(Commands)]
      <4>1. ASSUME NEW c \in Commands PROVE stopping[c] \in 0 .. 2 * Cardinality(Commands)
        <5>1. stopping[c] \in Nat /\ stopping[c] <= 2 * Cardinality(TestsOver)
            BY <1>1 DEF IInv, Tested, TestTypes, StopsCounted
        <5>2. Cardinality(Commands) \in Nat
            BY Constant, FS_CardinalityType
        <5>. QED BY <5>1, <5>2, OverFinite
      <4>. QED BY <1>1, <4>1 DEF IInv, Tested, TestTypes
    <3>2. TestTypes
        BY <1>1 DEF IInv, Tested
    <3>. QED BY <3>1, <3>2 DEF TestTypes, Test!TypeOK, Test!Cardinality, Cardinality
  <2>. QED BY <1>1, <2>3, <2>4 DEF IInv, Commanded, Requested, FlagsAreExact, TypeOK
<1>. QED BY <1>1, SpecIInv, PTL

\* The debug listener that the next command would close is not closed yet, and no other
\* one listens, whatever the commands before left undone (dotnetTest.ts:699-702, 762-776).
THEOREM SocketsCorrect == Spec => []ActiveIsOpen
<1>1. IInv => ActiveIsOpen
    BY DEF IInv, Tested, OneTest, ActiveIsOpen
<1>. QED BY <1>1, SpecIInv, PTL

\* An activated extension has the server that was chosen in a trusted workspace, with
\* its commands, and beside a Dev Kit it is OmniSharp only when that came later; what
\* says it is initialized had everything it awaits; and changes after the options were
\* taken were told, in whatever order promises settle or fail and OmniSharp is started,
\* stopped and dies (main.ts:74-160, activateRoslyn.ts:75-79, activateOmniSharp.ts:51-59,
\* roslynLanguageServer.ts:852-898).
THEOREM ActivationCorrect == Spec => []Activating!ActivationFits
<1>1. ASSUME IInv PROVE Activating!ActivationFits
  <2>1. ActivationTypes /\ Chosen /\ OneKindOfServer /\ Asked
      BY <1>1 DEF IInv, Activated
  <2>2. Activating!ServerFits
      BY <2>1 DEF ActivationTypes, Chosen, OneKindOfServer, Activating!ServerFits
  <2>3. Activating!ChangeIsTold
      BY <2>1 DEF ActivationTypes, OneKindOfServer, Activating!ChangeIsTold
  <2>4. Activating!FinishedMeansReady
      BY <2>1 DEF OneKindOfServer, Asked, Activating!FinishedMeansReady
  <2>. QED BY <2>2, <2>3, <2>4 DEF Activating!ActivationFits
<1>. QED BY <1>1, SpecIInv, PTL
=============================================================================
