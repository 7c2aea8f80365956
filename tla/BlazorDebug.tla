----------------------------- MODULE BlazorDebug -----------------------------
(* Debugging a Blazor WebAssembly app
   (razor/src/blazorDebug/blazorDebugConfigurationProvider.ts).

   Resolving one debug configuration leads to up to three sessions: a managed
   debugger, which the provider starts itself after it has launched a bridge
   process; the app's server, which VS Code starts when the provider returns; and
   a browser, which a listener starts once the session of the app has started.
   All sessions that start while the provider tracks them are stopped when the
   first of them ends.

   VS Code (external) starts a session some time after it was asked to, or fails
   to, and fires one event for every start and every end.  Sessions of the user
   that have nothing to do with Blazor may start at any time.  C# Dev Kit may ask
   for a bridge of its own.  The launches are of one URL; the platform is Windows,
   where the provider does not clean up after the app's process, and the cascade
   of ends that VS Code derives from the names of configurations is left to the
   chance that any session ends at any time.                                 *)
EXTENDS Naturals, FiniteSets, SequencesExt

CONSTANTS
    Launches,       \* configurations resolved, and bridges asked for by Dev Kit
    NoLaunch,       \* no launch
    MaxSessions     \* bound, in Nat: sessions

VARIABLES
    isTrackingSessions,
    tracked,        \* trackedSessionIds, oldest first
    stops,          \* what is left of the lists sessionsToStop
    pc,             \* what the resolution of a launch awaits
    app,            \* launches with a "launch" request
    chain,          \* currentConfigurationIndex of a launch's start listener, 0 without one
    sessions,       \* the sessions, in the order they were asked for
    bridge,         \* the bridge process of a launch
    pidByUrl,       \* the launch whose bridge pidsByUrl has, or NoLaunch
    late,           \* history: sessions that started when none were tracked
    crossed         \* history: launches during which another one was resolved

tracking == <<isTrackingSessions, tracked, stops>>
bridges == <<bridge, pidByUrl>>
vars == <<tracking, pc, app, chain, sessions, bridges, late, crossed>>

Session(kind, l, parent) == [kind |-> kind, by |-> l, parent |-> parent, state |-> "starting"]

Ids == DOMAIN sessions
SessionsOf(l) == {s \in Ids : sessions[s].by = l}
InState(s, state) == sessions[s].state = state
Room(n) == Len(sessions) + n <= MaxSessions

\* A launch is alive while it is resolved, waits for a session to start, or has
\* one that runs.
Alive(l) ==
    \/ pc[l] \notin {"idle", "resolved"}
    \/ chain[l] # 0
    \/ \E s \in SessionsOf(l) : ~InState(s, "ended") /\ ~InState(s, "failed")

Init ==
    /\ isTrackingSessions = FALSE
    /\ tracked = <<>> /\ stops = {}
    /\ pc = [l \in Launches |-> "idle"]
    /\ app = {}
    /\ chain = [l \in Launches |-> 0]
    /\ sessions = <<>>
    /\ bridge = [l \in Launches |-> "none"]
    /\ pidByUrl = NoLaunch
    /\ late = {} /\ crossed = {}

Goto(l, label) == pc' = [pc EXCEPT ![l] = label]

-----------------------------------------------------------------------------
(* Resolving a configuration.                                                *)

\* Tracking begins anew.
StartTracking ==
    /\ isTrackingSessions' = TRUE
    /\ tracked' = <<>>
    /\ UNCHANGED stops

Cross(l) ==
    LET others == {k \in Launches \ {l} : Alive(k)}
    IN  crossed' = IF others = {} THEN crossed ELSE crossed \cup others \cup {l}

\* The provider returns its configurations: VS Code starts the first, and with
\* two of them a listener waits for that session to start the second.
Return(l, browser) ==
    /\ Goto(l, "resolved")
    /\ chain' = [chain EXCEPT ![l] = IF l \in app /\ browser THEN 1 ELSE 0]
    /\ sessions' =
           CASE l \in app         -> Append(sessions, Session("app", l, 0))
             [] l \notin app /\ browser -> Append(sessions, Session("browser", l, 0))
             [] OTHER             -> sessions

\* resolveDebugConfiguration, with a browser: useVSDbg is awaited first.
ResolveWithBrowser(l, launch) ==
    /\ pc[l] = "idle"
    /\ StartTracking
    /\ Cross(l)
    /\ app' = IF launch THEN app \cup {l} ELSE app
    /\ Goto(l, "useVSDbg")
    /\ UNCHANGED <<chain, sessions, bridges, late>>

\* Without one there is only the app.
ResolveAppOnly(l) ==
    /\ pc[l] = "idle" /\ Room(1)
    /\ StartTracking
    /\ Cross(l)
    /\ app' = app \cup {l}
    /\ Goto(l, "resolved")
    /\ sessions' = Append(sessions, Session("app", l, 0))
    /\ UNCHANGED <<chain, bridges, late>>

\* tryToUseVSDbgForMono, called by Dev Kit, which starts its sessions itself.
TryToUseVSDbgForMono(l) ==
    /\ pc[l] = "idle"
    /\ StartTracking
    /\ Cross(l)
    /\ Goto(l, "devKit")
    /\ UNCHANGED <<app, chain, sessions, bridges, late>>

\* The setting, the bridge's file and the project's framework allow the managed
\* debugger: a bridge is spawned.
UseVSDbg(l) ==
    /\ pc[l] \in {"useVSDbg", "devKit"}
    /\ Goto(l, IF pc[l] = "devKit" THEN "devKitBridge" ELSE "bridge")
    /\ bridge' = [bridge EXCEPT ![l] = "spawned"]
    /\ UNCHANGED <<tracking, app, chain, sessions, pidByUrl, late, crossed>>

DoNotUseVSDbg(l) ==
    /\ pc[l] \in {"useVSDbg", "devKit"}
    /\ Goto(l, IF pc[l] = "devKit" THEN "resolved" ELSE "browser")
    /\ UNCHANGED <<tracking, app, chain, sessions, bridges, late, crossed>>

\* 'vsWebAssemblyReady': the provider starts the managed debugger, Dev Kit gets
\* its answer, and nobody listens to a second event.
BridgeAnswers(l) ==
    CASE pc[l] = "bridge"       -> /\ Room(1)
                                   /\ Goto(l, "managed")
                                   /\ sessions' = Append(sessions, Session("managed", l, 0))
      [] pc[l] = "devKitBridge" -> Goto(l, "resolved") /\ UNCHANGED sessions
      [] OTHER                  -> UNCHANGED <<pc, sessions>>

\* The bridge prints its address: it takes the place of the one before for the
\* URL, which is killed.
\* Mutant: the one before goes on.
BridgeListensAlone(l) ==
    /\ bridge[l] = "spawned"
    /\ bridge' = [bridge EXCEPT ![l] = "listening"]
    /\ pidByUrl' = IF pidByUrl = NoLaunch THEN l ELSE pidByUrl
    /\ BridgeAnswers(l)
    /\ UNCHANGED <<tracking, app, chain, late, crossed>>

BridgeListens(l) ==
    /\ bridge[l] = "spawned"
    /\ bridge' = [k \in Launches |->
                      IF k = l THEN "listening" ELSE IF k = pidByUrl THEN "dead" ELSE bridge[k]]
    /\ pidByUrl' = l
    /\ BridgeAnswers(l)
    /\ UNCHANGED <<tracking, app, chain, late, crossed>>

\* It says too much without an address, or cannot be read: it is given up, and
\* goes on.
BridgeGivenUp(l) ==
    /\ bridge[l] = "spawned" /\ pc[l] \in {"bridge", "devKitBridge"}
    /\ BridgeAnswers(l)
    /\ UNCHANGED <<tracking, app, chain, bridges, late, crossed>>

\* It ends before it listens, or cannot be spawned.  One that listened may end
\* too, which nobody notices.
BridgeDies(l) ==
    /\ bridge[l] = "spawned"
    /\ bridge' = [bridge EXCEPT ![l] = "dead"]
    /\ BridgeAnswers(l)
    /\ UNCHANGED <<tracking, app, chain, pidByUrl, late, crossed>>

\* The managed session has started, or not: the provider goes on either way.
ManagedReturns(l) ==
    /\ pc[l] = "managed"
    /\ \E s \in SessionsOf(l) : sessions[s].kind = "managed" /\ ~InState(s, "starting")
    /\ Goto(l, "browser")
    /\ UNCHANGED <<tracking, app, chain, sessions, bridges, late, crossed>>

\* A browser is installed, or none.
BrowserDetermined(l, found) ==
    /\ pc[l] = "browser" /\ Room(1)
    /\ Return(l, found)
    /\ UNCHANGED <<tracking, app, bridges, late, crossed>>

-----------------------------------------------------------------------------
(* The sessions.                                                             *)

\* The listeners whose next configuration a session is of, by name and type: the
\* name of the app's is a constant, that of the browser's is the launch's own,
\* which is the same for all launches of one configuration.
Matching(s, list) ==
    {l \in Launches : \/ chain[l] = 1 /\ list[s].kind = "app"
                      \/ chain[l] = 2 /\ list[s].kind = "browser"}

\* onDidStartDebugSession: tracking first, then the listeners of the launches,
\* which ask for a browser when an app has started and are disposed after it.
SessionStarts(s) ==
    LET hit == {l \in Matching(s, sessions) : chain[l] = 1}
    IN  /\ InState(s, "starting") /\ Room(Cardinality(hit))
        /\ tracked' = IF isTrackingSessions THEN Append(tracked, s) ELSE tracked
        /\ late' = IF isTrackingSessions THEN late ELSE late \cup {s}
        /\ sessions' = [sessions EXCEPT ![s].state = "running"]
                           \o SetToSeq({Session("browser", l, s) : l \in hit})
        /\ chain' = [l \in Launches |->
                        IF l \in hit THEN 2 ELSE IF l \in Matching(s, sessions) THEN 0 ELSE chain[l]]
        /\ UNCHANGED <<isTrackingSessions, stops, pc, app, bridges, crossed>>

\* A browser that a listener asked for does not start: the listener is disposed.
\* That of a launch whose app does not start stays.
SessionFails(s) ==
    /\ InState(s, "starting")
    /\ sessions' = [sessions EXCEPT ![s].state = "failed"]
    /\ chain' = IF sessions[s].parent # 0
                THEN [chain EXCEPT ![sessions[s].by] = 0]
                ELSE chain
    /\ UNCHANGED <<tracking, pc, app, bridges, late, crossed>>

\* Another session of the user, of no concern when none are tracked.
OtherSessionStarts ==
    /\ isTrackingSessions /\ Room(1)
    /\ sessions' = Append(sessions, [Session("other", NoLaunch, 0) EXCEPT !.state = "running"])
    /\ tracked' = Append(tracked, Len(sessions'))
    /\ UNCHANGED <<isTrackingSessions, stops, pc, app, chain, bridges, late, crossed>>

\* onDidTerminateDebugSession: the end of a tracked session ends the tracking, and
\* its siblings are stopped one after the other.
\* Mutant: the siblings are forgotten before they are listed.
OnDidTerminateForgets(s, remaining) ==
    /\ stops' = remaining
    /\ IF s \notin ToSet(tracked)
       THEN UNCHANGED <<isTrackingSessions, tracked>>
       ELSE isTrackingSessions' = FALSE /\ tracked' = <<>>

\* The tracked sessions but s, which is one of them, in their order.
TrackedBut(s) ==
    LET n == CHOOSE i \in DOMAIN tracked : tracked[i] = s
    IN  [i \in 1 .. Len(tracked) - 1 |-> tracked[IF i < n THEN i ELSE i + 1]]

OnDidTerminate(s, remaining) ==
    IF s \notin ToSet(tracked)
    THEN UNCHANGED <<isTrackingSessions, tracked>> /\ stops' = remaining
    ELSE /\ isTrackingSessions' = FALSE
         /\ tracked' = <<>>
         /\ stops' = (remaining \cup {TrackedBut(s)}) \ {<<>>}

End(s) == sessions' = [sessions EXCEPT ![s].state = "ended"]

SessionEnds(s) ==
    /\ InState(s, "running")
    /\ End(s)
    /\ OnDidTerminate(s, stops)
    /\ UNCHANGED <<pc, app, chain, bridges, late, crossed>>

\* stopDebugging returns when its session has ended, at once if it had before.
StopNext(list) ==
    LET s == Head(list)
        remaining == (stops \ {list}) \cup ({Tail(list)} \ {<<>>})
    IN  /\ IF InState(s, "running")
           THEN End(s) /\ OnDidTerminate(s, remaining)
           ELSE stops' = remaining /\ UNCHANGED <<sessions, isTrackingSessions, tracked>>
        /\ UNCHANGED <<pc, app, chain, bridges, late, crossed>>

-----------------------------------------------------------------------------
Next ==
    \/ \E l \in Launches :
           \/ \E launch \in BOOLEAN : ResolveWithBrowser(l, launch)
           \/ ResolveAppOnly(l) \/ TryToUseVSDbgForMono(l)
           \/ UseVSDbg(l) \/ DoNotUseVSDbg(l)
           \/ BridgeListens(l) \/ BridgeGivenUp(l) \/ BridgeDies(l)
           \/ ManagedReturns(l)
           \/ \E found \in BOOLEAN : BrowserDetermined(l, found)
    \/ \E s \in Ids : SessionStarts(s) \/ SessionFails(s) \/ SessionEnds(s)
    \/ OtherSessionStarts
    \/ \E list \in stops : StopNext(list)

Spec == Init /\ [][Next]_vars

-----------------------------------------------------------------------------
(* Properties.                                                               *)

TypeOK ==
    /\ isTrackingSessions \in BOOLEAN
    /\ ToSet(tracked) \subseteq Ids
    /\ \A list \in stops : list # <<>> /\ ToSet(list) \subseteq Ids
    /\ pc \in [Launches -> {"idle", "useVSDbg", "devKit", "bridge", "devKitBridge", "managed",
                            "browser", "resolved"}]
    /\ app \subseteq Launches
    /\ chain \in [Launches -> 0 .. 2]
    /\ \A s \in Ids : sessions[s] \in
           [kind : {"app", "browser", "managed", "other"}, by : Launches \cup {NoLaunch},
            parent : 0 .. MaxSessions, state : {"starting", "running", "ended", "failed"}]
    /\ bridge \in [Launches -> {"none", "spawned", "listening", "dead"}]
    /\ pidByUrl \in Launches \cup {NoLaunch}
    /\ late \subseteq Ids /\ crossed \subseteq Launches

\* "captures sessions started during a Blazor debug launch so they can all be torn
\* down together when any one terminates" (blazorDebugConfigurationProvider.ts:70):
\* of a launch during which no other was resolved, no session goes on after one
\* has ended, but those that started after that; and a browser that was asked for
\* once an app had started belongs to the launch of that app.
EndTogether ==
    \A l \in Launches \ crossed :
        /\ \A s, t \in SessionsOf(l) :
               InState(s, "ended") /\ InState(t, "running") =>
                   t \in late \/ \E list \in stops : t \in ToSet(list)
        /\ \A s \in SessionsOf(l) :
               sessions[s].parent # 0 => sessions[sessions[s].parent].by = l

\* A URL has one bridge that listens at most, the one its pid is kept of, however
\* launches overlap (blazorDebugConfigurationProvider.ts:618-631).
OneBridge == \A l \in Launches : bridge[l] = "listening" => pidByUrl = l
=============================================================================
