--------------------------- MODULE RoslynCommands ---------------------------
(* The commands that ask the Roslyn server to restore projects and to run or
   debug tests, and the debug sessions the server asks for while tests run.

   restoreInProgress and testRunInProgress, global in their modules, keep two
   restores and two test runs apart.  The server may go away at any time: all
   requests it has not answered fail.  A test run with the debugger makes the
   server call back: the extension starts a debug session and answers when the
   debugger says that it is attached, or when the session is over.

   Entry points modelled: chooseProjectAndRestore, restore (projectRestore/
   restore.ts), runTests (testing/unitTesting.ts), sendRequest, sendRequest0,
   sendRequestWithProgress, registerDebuggerAttach, WaitForAttachCompleteAsync
   (server/roslynLanguageServer.ts).                                         *)
EXTENDS Naturals, FiniteSets

CONSTANTS
    Commands,       \* invocations of commands by the user
    Attaches,       \* requests of the server to attach the debugger
    MaxStops        \* bound, in Nat: how often the server goes away

VARIABLES
    server,         \* is the server running
    stops,          \* how often it went away
    restoreInProgress,
    testRunInProgress,
    pc,             \* where an invocation is
    attach,         \* where an attach request is
    registered,     \* attach requests with listeners for debug sessions
    event,          \* the first event of the session that the listeners took
    answer          \* what the server was told of an attach request

flags == <<restoreInProgress, testRunInProgress>>
attaching == <<attach, registered, event, answer>>
vars == <<server, stops, flags, pc, attaching>>

Awaiting == {"projects", "restoring", "testing"}     \* requests to the server
Ended == {"done", "refused", "failed"}

TypeOK ==
    /\ server \in {"running", "stopped"}
    /\ stops \in 0 .. MaxStops
    /\ restoreInProgress \in BOOLEAN
    /\ testRunInProgress \in BOOLEAN
    /\ pc \in [Commands -> {"idle", "picking", "saving"} \cup Awaiting \cup Ended]
    /\ attach \in [Attaches -> {"idle", "starting", "waiting", "answered", "dropped"}]
    /\ registered \subseteq Attaches
    /\ event \in [Attaches -> {"none", "complete", "terminated"}]
    /\ answer \in [Attaches -> {"none", "attached", "notAttached"}]

Init ==
    /\ server = "running" /\ stops = 0
    /\ restoreInProgress = FALSE /\ testRunInProgress = FALSE
    /\ pc = [c \in Commands |-> "idle"]
    /\ attach = [a \in Attaches |-> "idle"]
    /\ registered = {}
    /\ event = [a \in Attaches |-> "none"]
    /\ answer = [a \in Attaches |-> "none"]

Goto(c, l) == pc' = [pc EXCEPT ![c] = l]

\* sendRequest and sendRequest0 throw when the server is not running; without
\* this test sendRequestWithProgress is rejected by the client all the same.
SendRequest(c, l) == IF server = "running" THEN Goto(c, l) ELSE Goto(c, "failed")

-----------------------------------------------------------------------------
(* Restore.                                                                  *)

\* dotnet.restore.project asks for the projects first.
ChooseProjectAndRestore(c) ==
    /\ pc[c] = "idle"
    /\ SendRequest(c, "projects")
    /\ UNCHANGED <<server, stops, flags, attaching>>

ProjectsArrive(c) ==
    /\ pc[c] = "projects"
    /\ Goto(c, "picking")
    /\ UNCHANGED <<server, stops, flags, attaching>>

\* Mutant: the flag is not looked at.
RestoreAgain(c) ==
    /\ SendRequest(c, "restoring")
    /\ restoreInProgress' = (server = "running" \/ restoreInProgress)

\* The flag is set, and is free again at once when the request cannot be sent.
Restore(c) ==
    IF restoreInProgress
    THEN Goto(c, "refused") /\ UNCHANGED restoreInProgress
    ELSE /\ SendRequest(c, "restoring")
         /\ restoreInProgress' = (server = "running")

RestoreAll(c) ==
    /\ pc[c] = "idle"
    /\ Restore(c)
    /\ UNCHANGED <<server, stops, testRunInProgress, attaching>>

PickProject(c) ==
    /\ pc[c] = "picking"
    /\ \/ Restore(c)
       \/ Goto(c, "done") /\ UNCHANGED restoreInProgress
    /\ UNCHANGED <<server, stops, testRunInProgress, attaching>>

\* The server answers, with a result or an error.
RestoreEnds(c) ==
    /\ pc[c] = "restoring"
    /\ restoreInProgress' = FALSE
    /\ Goto(c, "done")
    /\ UNCHANGED <<server, stops, testRunInProgress, attaching>>

-----------------------------------------------------------------------------
(* Tests.                                                                    *)

RunTests(c) ==
    /\ pc[c] = "idle"
    /\ IF testRunInProgress
       THEN Goto(c, "refused") /\ UNCHANGED testRunInProgress
       ELSE Goto(c, "saving") /\ testRunInProgress' = TRUE
    /\ UNCHANGED <<server, stops, restoreInProgress, attaching>>

\* The files are saved and the request is sent; when either fails the run is
\* over.
FilesSaved(c) ==
    /\ pc[c] = "saving"
    /\ \/ server = "running" /\ Goto(c, "testing") /\ testRunInProgress' = TRUE
       \/ Goto(c, "failed") /\ testRunInProgress' = FALSE
    /\ UNCHANGED <<server, stops, restoreInProgress, attaching>>

TestsEnd(c) ==
    /\ pc[c] = "testing"
    /\ Goto(c, "done")
    /\ testRunInProgress' = FALSE
    /\ UNCHANGED <<server, stops, restoreInProgress, attaching>>

-----------------------------------------------------------------------------
(* The debugger.                                                             *)

\* Mutant: the listeners are registered when the session has started.
DebugAttachUnheard(a) ==
    /\ attach[a] = "idle"
    /\ server = "running" /\ \E c \in Commands : pc[c] = "testing"
    /\ attach' = [attach EXCEPT ![a] = "starting"]
    /\ UNCHANGED <<server, stops, flags, pc, registered, event, answer>>

\* External: the server asks only while it runs tests.
\* The listeners are registered before the session is started.
DebugAttach(a) ==
    /\ attach[a] = "idle"
    /\ server = "running" /\ \E c \in Commands : pc[c] = "testing"
    /\ attach' = [attach EXCEPT ![a] = "starting"]
    /\ registered' = registered \cup {a}
    /\ UNCHANGED <<server, stops, flags, pc, event, answer>>

Answer(a, r) ==
    /\ attach' = [attach EXCEPT ![a] = "answered"]
    /\ answer' = [answer EXCEPT ![a] = r]

\* startDebugging returns; when it failed the listeners stay.
StartDebuggingReturns(a) ==
    /\ attach[a] = "starting"
    /\ \/ attach' = [attach EXCEPT ![a] = "waiting"] /\ UNCHANGED answer
       \/ Answer(a, "notAttached")
    /\ UNCHANGED <<server, stops, flags, pc, registered, event>>

\* A custom event of the debugger, or the end of its session, which may come
\* before startDebugging returns.  The first one takes the listeners away.
SessionEvent(a) ==
    /\ a \in registered
    /\ \E e \in {"complete", "terminated"} : event' = [event EXCEPT ![a] = e]
    /\ registered' = registered \ {a}
    /\ UNCHANGED <<server, stops, flags, pc, attach, answer>>

AttachAnswered(a) ==
    /\ attach[a] = "waiting" /\ event[a] # "none"
    /\ Answer(a, IF event[a] = "complete" THEN "attached" ELSE "notAttached")
    /\ UNCHANGED <<server, stops, flags, pc, registered, event>>

-----------------------------------------------------------------------------
(* The server goes away and comes back.                                      *)

\* Every request is rejected, and what awaited it goes on.  The answers to its
\* own requests reach it no more.
ServerStops ==
    /\ server = "running" /\ stops < MaxStops
    /\ server' = "stopped" /\ stops' = stops + 1
    /\ pc' = [c \in Commands |-> IF pc[c] \in Awaiting THEN "failed" ELSE pc[c]]
    /\ restoreInProgress' =
           (restoreInProgress /\ ~\E c \in Commands : pc[c] = "restoring")
    /\ testRunInProgress' =
           (testRunInProgress /\ ~\E c \in Commands : pc[c] = "testing")
    /\ attach' = [a \in Attaches |->
                      IF attach[a] \in {"starting", "waiting"} THEN "dropped" ELSE attach[a]]
    /\ UNCHANGED <<registered, event, answer>>

ServerStarts ==
    /\ server = "stopped"
    /\ server' = "running"
    /\ UNCHANGED <<stops, flags, pc, attaching>>

Progress(c) ==
    \/ ProjectsArrive(c) \/ RestoreEnds(c)
    \/ FilesSaved(c) \/ TestsEnd(c)

AttachProgress(a) == StartDebuggingReturns(a) \/ SessionEvent(a) \/ AttachAnswered(a)

Next ==
    \/ \E c \in Commands :
           \/ ChooseProjectAndRestore(c) \/ RestoreAll(c) \/ PickProject(c)
           \/ RunTests(c)
           \/ Progress(c)
    \/ \E a \in Attaches : DebugAttach(a) \/ AttachProgress(a)
    \/ ServerStops
    \/ ServerStarts

\* The server answers its requests, files get saved, VS Code starts a session
\* or fails to, and a session that was started attaches or ends.
Fairness ==
    /\ \A c \in Commands : WF_vars(Progress(c))
    /\ \A a \in Attaches : WF_vars(AttachProgress(a))

Spec == Init /\ [][Next]_vars
FairSpec == Spec /\ Fairness

-----------------------------------------------------------------------------
(* Properties.                                                               *)

\* The server restores for one command at a time and runs tests for one command
\* at a time, from before the files are saved, and the flag of each is set exactly
\* while it does: no failure and no stop of the server makes later commands
\* refuse for ever (restore.ts:76-93, unitTesting.ts:71-78, 139-146).
FlagsAreExact ==
    /\ Cardinality({c \in Commands : pc[c] = "restoring"}) <= 1
    /\ restoreInProgress <=> \E c \in Commands : pc[c] = "restoring"
    /\ Cardinality({c \in Commands : pc[c] \in {"saving", "testing"}}) <= 1
    /\ testRunInProgress <=> \E c \in Commands : pc[c] \in {"saving", "testing"}

\* Every command, whatever fails on its way, and every attach request, even when
\* the debugger reports before startDebugging returns, comes to an end
\* (restore.ts:86-97, roslynLanguageServer.ts:815-823).
EveryCommandEnds ==
    /\ \A c \in Commands : pc[c] \in Awaiting \cup {"saving"} ~> pc[c] \in Ended \cup {"picking"}
    /\ \A a \in Attaches : attach[a] \in {"starting", "waiting"} ~> attach[a] \in {"answered", "dropped"}

=============================================================================
