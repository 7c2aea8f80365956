----------------------------- MODULE DotnetTest -----------------------------
(* Running and debugging tests with OmniSharp (TestManager and
   DebugEventListener of omnisharp/features/dotnetTest.ts).

   A command subscribes to the test messages of the server, asks for the project
   of the file and then for the tests to be run, or for what to launch in the
   debugger.  To debug, it first opens a socket on which the debugger reports
   that the process was launched and that debugging has stopped; both are
   forwarded to the server.  The path of the socket is the same for all commands
   of the extension, and the socket is closed when the server has taken note of
   the stop, when a step fails, or when the next debug command begins.

   The steps before and after every await of a command may interleave with those
   of other commands.  The stat and the unlink of deleteIfExists are one step.
   The counts of requests for telemetry are left out.                         *)
EXTENDS Naturals, FiniteSets

CONSTANTS
    Commands,       \* invocations of commands by the user
    Nobody,         \* no command
    Overlap,        \* FALSE: a command starts when those before are over
    StopFails       \* TRUE: the server may fail to take note of a stop

VARIABLES
    kind,           \* what a command does
    pc,             \* where it is
    subscribed,     \* commands with a listener for test messages
    activeInstance, \* DebugEventListener.s_activeInstance, by its command
    closed,         \* listeners with _isClosed
    listening,      \* listeners with a server socket that accepts connections
    path,           \* the listener the socket file leads to
    connection,     \* the listener the debugger of a command is connected to
    launched,       \* the listener that told the server of the launched process
    stopping        \* requests of a listener to the server to stop, under way

sockets == <<activeInstance, closed, listening, path>>
debuggers == <<connection, launched, stopping>>
vars == <<kind, pc, subscribed, sockets, debuggers>>

Before == {"saving", "project", "removing", "listen"}
Asking == {"tests", "startInfo"}
Session == {"starting", "session", "running"}
Ended == {"done", "failed"}

TypeOK ==
    /\ kind \in [Commands -> {"run", "debug", "debugInContext"}]
    /\ pc \in [Commands -> {"idle"} \cup Before \cup Asking \cup Session \cup Ended]
    /\ subscribed \subseteq Commands
    /\ activeInstance \in Commands \cup {Nobody}
    /\ closed \subseteq Commands
    /\ listening \subseteq Commands
    /\ path \in Commands \cup {Nobody}
    /\ connection \in [Commands -> Commands \cup {Nobody}]
    /\ launched \in [Commands -> Commands \cup {Nobody}]
    /\ stopping \in [Commands -> 0 .. 2 * Cardinality(Commands)]

Init ==
    /\ kind \in [Commands -> {"run", "debug", "debugInContext"}]
    /\ pc = [c \in Commands |-> "idle"]
    /\ subscribed = {}
    /\ activeInstance = Nobody
    /\ closed = {} /\ listening = {} /\ path = Nobody
    /\ connection = [c \in Commands |-> Nobody]
    /\ launched = [c \in Commands |-> Nobody]
    /\ stopping = [c \in Commands |-> 0]

Goto(c, l) == pc' = [pc EXCEPT ![c] = l]

-----------------------------------------------------------------------------
(* All commands.                                                             *)

\* A run listens from its beginning, a debug command while it asks for what to
\* launch.
Start(c) ==
    /\ pc[c] = "idle"
    /\ Overlap \/ \A d \in Commands : pc[d] \in {"idle"} \cup Ended
    /\ Goto(c, "saving")
    /\ subscribed' = IF kind[c] = "run" THEN subscribed \cup {c} ELSE subscribed
    /\ UNCHANGED <<kind, sockets, debuggers>>

Saved(c) ==
    /\ pc[c] = "saving"
    /\ Goto(c, "project")
    /\ UNCHANGED <<kind, subscribed, sockets, debuggers>>

-----------------------------------------------------------------------------
(* Runs.                                                                     *)

\* A run goes on without the project; a project of another kind is an error that
\* nothing catches.
ProjectOfRun(c) ==
    /\ pc[c] = "project" /\ kind[c] = "run"
    /\ \/ Goto(c, "tests")
       \/ Goto(c, "failed")
    /\ UNCHANGED <<kind, subscribed, sockets, debuggers>>

\* With results or a failure, both of which are reported.
TestsEnd(c) ==
    /\ pc[c] = "tests"
    /\ Goto(c, "done")
    /\ subscribed' = subscribed \ {c}
    /\ UNCHANGED <<kind, sockets, debuggers>>

-----------------------------------------------------------------------------
(* The socket of a debug command.                                            *)

\* close, once: a server socket that listens takes its file with it.
Close(c) ==
    /\ closed' = closed \cup {c}
    /\ IF c \in listening \ closed
       THEN listening' = listening \ {c} /\ path' = Nobody
       ELSE UNCHANGED <<listening, path>>

\* Mutant: a listener that is still there is left alone.
CloseActiveNot == UNCHANGED <<closed, listening, path>>

CloseActive ==
    IF activeInstance = Nobody THEN UNCHANGED <<closed, listening, path>> ELSE Close(activeInstance)

\* The beginning of DebugEventListener.start, up to its first await.
ProjectOfDebug(c) ==
    /\ pc[c] = "project" /\ kind[c] # "run"
    /\ \/ /\ Goto(c, "removing")
          /\ CloseActive
          /\ activeInstance' = c
       \/ Goto(c, "failed") /\ UNCHANGED sockets
    /\ UNCHANGED <<kind, subscribed, debuggers>>

RemoveSocketFile(c) ==
    /\ pc[c] = "removing"
    /\ path' = Nobody
    /\ Goto(c, "listen")
    /\ UNCHANGED <<kind, subscribed, activeInstance, closed, listening, debuggers>>

\* listen fails when there is a file at the path; the command then ends with the
\* instance still the active one.  It asks for the launch when it listens.
Listen(c) ==
    /\ pc[c] = "listen"
    /\ IF path = Nobody
       THEN /\ path' = c
            /\ listening' = listening \cup {c}
            /\ subscribed' = subscribed \cup {c}
            /\ Goto(c, "startInfo")
       ELSE /\ Goto(c, "failed")
            /\ UNCHANGED <<path, listening, subscribed>>
    /\ UNCHANGED <<kind, activeInstance, closed, debuggers>>

CloseOwn(c) ==
    /\ activeInstance' = IF activeInstance = c THEN Nobody ELSE activeInstance
    /\ Close(c)

\* What to launch is known; in a context without tests nothing is launched and
\* the listener stays; a failure closes it.
StartInfoArrives(c) ==
    /\ pc[c] = "startInfo"
    /\ subscribed' = subscribed \ {c}
    /\ \/ Goto(c, "starting") /\ UNCHANGED sockets
       \/ kind[c] = "debugInContext" /\ Goto(c, "done") /\ UNCHANGED sockets
       \/ Goto(c, "failed") /\ CloseOwn(c)
    /\ UNCHANGED <<kind, debuggers>>

\* startDebugging is returned, not awaited: when it fails the listener stays.
StartDebugging(c) ==
    /\ pc[c] = "starting"
    /\ Goto(c, "session") \/ Goto(c, "done")
    /\ UNCHANGED <<kind, subscribed, sockets, debuggers>>

-----------------------------------------------------------------------------
(* The debugger's side of the socket.                                        *)

\* External: the debugger connects to the path it was given.
Connect(c) ==
    /\ pc[c] = "session" /\ path # Nobody
    /\ Goto(c, "running")
    /\ connection' = [connection EXCEPT ![c] = path]
    /\ UNCHANGED <<kind, subscribed, sockets, launched, stopping>>

ConnectFails(c) ==
    /\ pc[c] = "session"
    /\ Goto(c, "done")
    /\ UNCHANGED <<kind, subscribed, sockets, debuggers>>

\* ProcessLaunched: the listener tells the server, with its own file.
OnProcessLaunched(c) ==
    /\ pc[c] = "running" /\ launched[c] = Nobody
    /\ launched' = [launched EXCEPT ![c] = connection[c]]
    /\ UNCHANGED <<kind, pc, subscribed, sockets, connection, stopping>>

\* DebuggingStopped, or the end of the connection, or one after the other.
OnDebuggingStopped(c) ==
    LET l == connection[c]
    IN  /\ pc[c] = "running"
        /\ Goto(c, "done")
        /\ \E n \in 1 .. 2 :
               stopping' = [stopping EXCEPT ![l] = IF l \in closed THEN @ ELSE @ + n]
        /\ UNCHANGED <<kind, subscribed, sockets, connection, launched>>

\* Mutant: the listener is left open when the server has stopped.
StopNotClosed(l) ==
    /\ stopping[l] > 0
    /\ stopping' = [stopping EXCEPT ![l] = @ - 1]
    /\ UNCHANGED <<kind, pc, subscribed, sockets, connection, launched>>

\* The answer of the server closes the listener, a failure does nothing.
StopEnds(l) ==
    /\ stopping[l] > 0
    /\ stopping' = [stopping EXCEPT ![l] = @ - 1]
    /\ \/ CloseOwn(l)
       \/ StopFails /\ UNCHANGED sockets
    /\ UNCHANGED <<kind, pc, subscribed, connection, launched>>

-----------------------------------------------------------------------------

Step(c) ==
    \/ Saved(c)
    \/ ProjectOfRun(c) \/ TestsEnd(c)
    \/ ProjectOfDebug(c) \/ RemoveSocketFile(c) \/ Listen(c)
    \/ StartInfoArrives(c) \/ StartDebugging(c)
    \/ Connect(c) \/ ConnectFails(c) \/ OnDebuggingStopped(c)
    \/ StopEnds(c)

Next == \E c \in Commands : Start(c) \/ Step(c) \/ OnProcessLaunched(c)

\* Files are saved, the server answers or fails, and a debug session ends.
Fairness == \A c \in Commands : WF_vars(Step(c))

Spec == Init /\ [][Next]_vars
FairSpec == Spec /\ Fairness

-----------------------------------------------------------------------------
(* Properties.                                                               *)

\* The listener that can be closed by the next command is one that was not
\* closed, and no other one listens: the one before is closed, whatever its
\* command left undone (dotnetTest.ts:699-702, 762-776).
ActiveIsOpen ==
    /\ activeInstance \notin closed
    /\ listening \subseteq {activeInstance}

\* A command comes to its end, and a debug session to the end of its socket, when
\* the server takes note of its stop.
EverySocketCloses ==
    \A c \in Commands :
        /\ pc[c] # "idle" ~> pc[c] \in Ended
        /\ pc[c] = "running" /\ connection[c] = c ~> c \notin listening

=============================================================================
