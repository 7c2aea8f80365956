---------------------------- MODULE OmniSharpServer ----------------------------
(***************************************************************************)
(* The life cycle of the OmniSharp server: start, stop and restart of      *)
(* OmniSharpServer (omnisharp/server.ts) over StdioEngine.start and stop   *)
(* (omnisharp/engines/stdioEngine.ts), and the provider registrations      *)
(* hung on its events (omnisharp/omnisharpLanguageServer.ts).              *)
(*                                                                         *)
(* start, stop and restart are async: a call is a process that runs to its *)
(* next await and continues there later, while other calls (the commands   *)
(* o.restart and o.pickProjectAndStart, the automatic start) run in        *)
(* between.  Everything from one await to the next is one action.          *)
(***************************************************************************)
EXTENDS Naturals, Sequences, FiniteSets

CONSTANTS
    Callers,        \* the calls that may be in flight at the same time
    MaxCalls,       \* bound: calls made in a behaviour
    Windows         \* stop kills with taskkill instead of ps and SIGTERM

ASSUME CallAssumption == MaxCalls \in Nat /\ Windows \in BOOLEAN

Engines == 1 .. MaxCalls
NoEngine == 0

VARIABLES
    state,          \* _state.status
    engine,         \* _state.engine
    pc,             \* what each call awaits
    own,            \* the engine each call works on
    thenStart,      \* the calls that are restarts: they start after their stop
    loaders,        \* calls waiting for the 'started' event, oldest listener first
    ready,          \* calls whose wait the event has ended, in that order
    process,        \* the server process of each engine
    attached,       \* engines whose _serverProcess and listeners are set
    announced,      \* engines whose process has sent 'started'
    registered,     \* engines whose language providers are registered
    registrations,  \* the engine whose providers `registrations` will dispose
    calls,          \* calls made so far
    overlapped      \* history: a call was made while another one was under way

serverVars == <<state, engine>>
engineVars == <<process, attached, announced>>
providerVars == <<registered, registrations>>
vars == <<serverVars, pc, own, thenStart, loaders, ready, engineVars, providerVars, calls, overlapped>>

Init ==
    /\ state = "Stopped"
    /\ engine = NoEngine
    /\ pc = [c \in Callers |-> "idle"]
    /\ own = [c \in Callers |-> NoEngine]
    /\ thenStart = {}
    /\ loaders = <<>>
    /\ ready = <<>>
    /\ process = [e \in Engines |-> "none"]
    /\ attached = {}
    /\ announced = {}
    /\ registered = {}
    /\ registrations = NoEngine
    /\ calls = 0
    /\ overlapped = FALSE

\* A caller makes a new call.  The continuations of an event run before
\* anything else does.
Calling(c) ==
    /\ ready = <<>>
    /\ pc[c] = "idle"
    /\ calls < MaxCalls
    /\ calls' = calls + 1
    /\ overlapped' = (overlapped \/ \E d \in Callers : pc[d] # "idle")

Goto(c, l) == pc' = [pc EXCEPT ![c] = l]

\* _setState: an equal status leaves the state, and with it the engine, alone.
SetState(status, e) ==
    /\ state' = status
    /\ engine' = IF state = status THEN engine ELSE e

\* The guard of start.
\* Mutant: a start that is stuck in Starting may be followed by another.
MayStartAgain == state # "Started"

MayStart == state = "Stopped"

At(c, l) == ready = <<>> /\ pc[c] = l /\ UNCHANGED <<calls, overlapped>>

-----------------------------------------------------------------------------
(* start *)

\* start: refused unless the state is Stopped; otherwise validateRequirements
\* is awaited, and the state stays Stopped meanwhile.
Start(c) ==
    /\ Calling(c)
    /\ MayStart
    /\ Goto(c, "validating")
    /\ UNCHANGED <<serverVars, own, thenStart, loaders, ready, engineVars, providerVars>>

\* Missing requirements end the call; otherwise the engine is created and the
\* state set to Starting, whatever it was: the guard is not repeated.
Validated(c, satisfied) ==
    /\ At(c, "validating")
    /\ IF satisfied
       THEN /\ Goto(c, "locating")
            /\ SetState("Starting", NoEngine)
            /\ own' = [own EXCEPT ![c] = CHOOSE e \in Engines :
                          /\ process[e] = "none"
                          /\ \A f \in Engines : process[f] = "none" => e <= f]
            /\ process' = [process EXCEPT ![own'[c]] = "created"]
       ELSE /\ Goto(c, "idle")
            /\ UNCHANGED <<serverVars, own, process>>
    /\ UNCHANGED <<thenStart, loaders, ready, attached, announced, providerVars>>

\* GetOmniSharpLaunchPath: a failure ends the call and leaves the state alone.
Located(c, found) ==
    /\ At(c, "locating")
    /\ Goto(c, IF found THEN "launching" ELSE "idle")
    /\ UNCHANGED <<serverVars, own, thenStart, loaders, ready, engineVars, providerVars>>

\* stop: nothing when Stopped, and nothing when Starting; when Started the kill
\* of the current engine is awaited.  Used by every path that stops.
BeginStop(c) ==
    IF state = "Started"
    THEN /\ Goto(c, "stopping")
         /\ own' = [own EXCEPT ![c] = engine]
    ELSE /\ Goto(c, "idle")
         /\ UNCHANGED own

\* engine.start: the process is launched and its output listened to, and the
\* 'started' event is awaited; a failed launch fires ServerError and stops.
Launched(c, success) ==
    /\ At(c, "launching")
    /\ IF success
       THEN /\ Goto(c, "loading")
            /\ process' = [process EXCEPT ![own[c]] = "running"]
            /\ attached' = attached \cup {own[c]}
            /\ loaders' = Append(loaders, c)
            /\ UNCHANGED own
       ELSE /\ BeginStop(c)
            /\ UNCHANGED <<process, attached, loaders>>
    /\ UNCHANGED <<serverVars, thenStart, ready, announced, providerVars>>

\* The listeners after the i-th is disposed.
Without(s, i) == [j \in 1 .. Len(s) - 1 |-> IF j < i THEN s[j] ELSE s[j + 1]]

\* projectLoadTimeout expires: ServerError, then stop.
\* Mutant: the timer does not reject.
LoadTimeoutSilent(c) ==
    /\ At(c, "loading")
    /\ \E i \in 1 .. Len(loaders) : loaders[i] = c /\ loaders' = Without(loaders, i)
    /\ UNCHANGED <<serverVars, pc, own, thenStart, ready, engineVars, providerVars>>

LoadTimeout(c) ==
    /\ At(c, "loading")
    /\ \E i \in 1 .. Len(loaders) : loaders[i] = c /\ loaders' = Without(loaders, i)
    /\ BeginStop(c)
    /\ UNCHANGED <<serverVars, thenStart, ready, engineVars, providerVars>>

\* A server process sends the 'started' event.  All engines share the event
\* bus, so it ends the wait of every call, whichever process it waits for.
StartedEvent(e) ==
    /\ ready = <<>>
    /\ process[e] = "running"
    /\ e \in attached \ announced
    /\ announced' = announced \cup {e}
    /\ ready' = loaders
    /\ loaders' = <<>>
    /\ UNCHANGED <<serverVars, pc, own, thenStart, process, attached, providerVars, calls, overlapped>>

\* The listener of ServerStart: the providers are registered and the
\* registrations kept for the listener of ServerStop.
\* Mutant: the registrations are not kept.
RegisterOnly(e) ==
    /\ registered' = registered \cup {e}
    /\ UNCHANGED registrations

RegisterProviders(e) ==
    /\ registered' = registered \cup {e}
    /\ registrations' = e

\* The continuation after engine.start: Started with this call's engine, unless
\* the state is Started already (_setState ignores an equal status).  ServerStart
\* is fired either way and the providers of the state's engine are registered.
FinishStart ==
    /\ ready # <<>>
    /\ LET c == Head(ready) IN
        /\ Goto(c, "idle")
        /\ SetState("Started", own[c])
        /\ RegisterProviders(engine')
    /\ ready' = Tail(ready)
    /\ UNCHANGED <<own, thenStart, loaders, engineVars, calls, overlapped>>

-----------------------------------------------------------------------------
(* stop and restart *)

\* restart: refused while Starting; otherwise stop, then start.  When the state
\* is Stopped the stop returns at once and the start's guard passes.
Restart(c) ==
    /\ Calling(c)
    /\ CASE state = "Starting" ->
               /\ Goto(c, "refused")
               /\ UNCHANGED <<own, thenStart>>
         [] state = "Stopped" ->
               /\ Goto(c, "validating")
               /\ UNCHANGED <<own, thenStart>>
         [] state = "Started" ->
               /\ BeginStop(c)
               /\ thenStart' = thenStart \cup {c}
    /\ UNCHANGED <<serverVars, loaders, ready, engineVars, providerVars>>

\* start is refused unless the state is Stopped.
StartRefused(c) ==
    /\ Calling(c)
    /\ ~MayStart
    /\ Goto(c, "alreadyRunning")
    /\ UNCHANGED <<serverVars, own, thenStart, loaders, ready, engineVars, providerVars>>

\* The caller of a refused call reads the message.
Dismiss(c) ==
    /\ At(c, "refused") \/ At(c, "alreadyRunning")
    /\ Goto(c, "idle")
    /\ UNCHANGED <<serverVars, own, thenStart, loaders, ready, engineVars, providerVars>>

\* The end of engine.stop.
\* Mutant: the process is forgotten and not killed.
LetGo(e) == attached' = attached \ {e} /\ UNCHANGED process

Kill(e) ==
    /\ process' = [process EXCEPT ![e] = "dead"]
    /\ attached' = attached \ {e}

\* The kill has succeeded: the engine lets go of its process, ServerStop
\* disposes the registrations and the state becomes Stopped.  A restart goes on
\* to start, whose guard passes.  Off Windows the kill dereferences
\* _serverProcess, which another stop may have cleared.
Stopped(c) ==
    LET e == own[c] IN
    /\ At(c, "stopping")
    /\ Windows \/ e \in attached
    /\ Kill(e)
    /\ SetState("Stopped", NoEngine)
    /\ registered' = registered \ {registrations}
    /\ registrations' = NoEngine
    /\ Goto(c, IF c \in thenStart THEN "validating" ELSE "idle")
    /\ thenStart' = thenStart \ {c}
    /\ UNCHANGED <<own, loaders, ready, announced>>

\* The kill fails (ps failed, a child exited meanwhile, or _serverProcess was
\* cleared): the call rejects and the state stays as it is.
KillFailed(c) ==
    /\ At(c, "stopping")
    /\ ~Windows
    /\ Goto(c, "idle")
    /\ thenStart' = thenStart \ {c}
    /\ UNCHANGED <<serverVars, own, loaders, ready, engineVars, providerVars>>

\* The server process exits by itself; nothing listens to that.
ProcessExit(e) ==
    /\ ready = <<>>
    /\ process[e] = "running"
    /\ process' = [process EXCEPT ![e] = "dead"]
    /\ UNCHANGED <<serverVars, pc, own, thenStart, loaders, ready, attached, announced, providerVars, calls, overlapped>>

Continue(c) ==
    \/ \E b \in BOOLEAN : Validated(c, b) \/ Located(c, b) \/ Launched(c, b)
    \/ LoadTimeout(c)
    \/ Stopped(c)
    \/ KillFailed(c)
    \/ Dismiss(c)

Next ==
    \/ \E c \in Callers : Start(c) \/ StartRefused(c) \/ Restart(c) \/ Continue(c)
    \/ FinishStart
    \/ \E e \in Engines : StartedEvent(e) \/ ProcessExit(e)

\* Every await ends: the checks, the launch and the kill return, and the load
\* timer expires.
Fairness == WF_vars(FinishStart) /\ \A c \in Callers : WF_vars(Continue(c))

Spec == Init /\ [][Next]_vars /\ Fairness

-----------------------------------------------------------------------------
(***************************************************************************)
(* Properties                                                              *)
(***************************************************************************)
Labels == {"idle", "validating", "locating", "launching", "loading", "stopping",
           "refused", "alreadyRunning"}

\* The type of every variable; the state has an engine exactly when it is
\* Started (the State type of server.ts).
TypeOK ==
    /\ state \in {"Stopped", "Starting", "Started"}
    /\ engine \in IF state = "Started" THEN Engines ELSE {NoEngine}
    /\ pc \in [Callers -> Labels]
    /\ own \in [Callers -> Engines \cup {NoEngine}]
    /\ thenStart \subseteq Callers
    /\ loaders \in Seq(Callers) /\ ready \in Seq(Callers)
    /\ process \in [Engines -> {"none", "created", "running", "dead"}]
    /\ attached \subseteq Engines /\ announced \subseteq Engines
    /\ registered \subseteq Engines
    /\ registrations \in Engines \cup {NoEngine}
    /\ calls \in 0 .. MaxCalls
    /\ overlapped \in BOOLEAN

Running == {e \in Engines : process[e] = "running"}

\* A running process can be stopped: it is the one of the current engine, or of
\* the start in progress, or the state is stuck in Starting after a start that
\* failed (stop does nothing then).
RunningIsOwned ==
    \A e \in Running :
        \/ state = "Started" /\ engine = e /\ e \in attached
        \/ state = "Starting" /\ \A f \in Running : f = e

\* At most one server process runs: "Attempt to start OmniSharp server failed
\* because another server instance is running" (server.ts:288) is how start
\* keeps a second one out.  It does so, and the process can be stopped, as long as
\* calls do not overlap.  Every variable has its type, also when they do.
OneServer ==
    /\ TypeOK
    /\ overlapped \/ (Cardinality(Running) <= 1 /\ RunningIsOwned)

\* The language providers that are registered are those of the engine the
\* state holds, and there are none unless it is Started: no provider of a
\* stopped engine survives a restart, none is registered twice.
ProvidersOfCurrentEngine ==
    overlapped \/ registered = IF state = "Started" THEN {engine} ELSE {}

\* Every call ends: refused, failed, or done.
EveryCallEnds == \A c \in Callers : pc[c] # "idle" ~> pc[c] = "idle"
=============================================================================
