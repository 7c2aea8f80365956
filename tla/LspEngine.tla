------------------------------ MODULE LspEngine ------------------------------
(* Requests to OmniSharp when it speaks LSP (omnisharp/engines/lspEngine.ts).

   A request first waits for the server to have loaded its projects, which is
   asked again and again by one task that all requests share, and is then sent
   up to several times: the engine means to send it again when the contents of
   the document changed under it.  The client of vscode-languageclient restarts
   a server that dies; what it had not answered is rejected.                  *)
EXTENDS Naturals

CONSTANTS
    Requests,       \* requests of the extension's features
    Errors,         \* what the server rejects requests with: "modified" is the LSP
                    \* code -32801, "other" stands for every other error
    MaxCrashes,     \* bound: how often the server dies and is started again
    MayStop         \* TRUE: the engine may be stopped

VARIABLES
    client,         \* the language client
    ready,          \* the server has loaded its projects
    initializeTask, \* the task that waits for it
    request,        \* where a request is
    tries,          \* its counter
    error,          \* the error it keeps
    rejection,      \* what its last attempt was rejected with, until that is caught
    crashes         \* how often the server died

requests == <<request, tries, error, rejection>>
vars == <<client, ready, initializeTask, requests, crashes>>

MaxTries == 5

TypeOK ==
    /\ client \in {"none", "starting", "running", "stopped"}
    /\ ready \in BOOLEAN
    /\ initializeTask \in {"none", "asking", "done", "failed"}
    /\ request \in [Requests -> {"idle", "initializing", "sent", "rejected", "answered", "failed"}]
    /\ tries \in [Requests -> 0 .. MaxTries]
    /\ error \in [Requests -> {"none", "modified", "other"}]
    /\ rejection \in [Requests -> {"none", "modified", "other"}]
    /\ \A r \in Requests : rejection[r] # "none" <=> request[r] = "rejected"
    /\ crashes \in 0 .. MaxCrashes

Init ==
    /\ client = "none" /\ ready = FALSE
    /\ initializeTask = "none"
    /\ request = [r \in Requests |-> "idle"]
    /\ tries = [r \in Requests |-> 0]
    /\ error = [r \in Requests |-> "none"]
    /\ rejection = [r \in Requests |-> "none"]
    /\ crashes = 0

Goto(r, l) == request' = [request EXCEPT ![r] = l]

-----------------------------------------------------------------------------
(* The engine.                                                               *)

Start ==
    /\ client = "none"
    /\ client' = "starting"
    /\ UNCHANGED <<ready, initializeTask, requests, crashes>>

Stop ==
    /\ MayStop /\ client = "running"
    /\ client' = "stopped" /\ ready' = FALSE
    /\ UNCHANGED <<initializeTask, requests, crashes>>

\* A request before the client is made is an error; the first one after it
\* starts the task.
MakeRequest(r) ==
    /\ request[r] = "idle"
    /\ IF client = "none"
       THEN Goto(r, "failed") /\ UNCHANGED initializeTask
       ELSE /\ Goto(r, "initializing")
            /\ initializeTask' = IF initializeTask = "none" THEN "asking" ELSE initializeTask
    /\ UNCHANGED <<client, ready, tries, error, rejection, crashes>>

\* waitForReady: "not yet" is asked again, an error is the end of the task.
ReadyAnswered ==
    /\ initializeTask = "asking"
    /\ \/ client = "running" /\ ready /\ initializeTask' = "done"
       \/ client = "stopped" /\ initializeTask' = "failed"
    /\ UNCHANGED <<client, ready, requests, crashes>>

Initialized(r) ==
    /\ request[r] = "initializing"
    /\ \/ initializeTask = "done" /\ Goto(r, "sent")
       \/ initializeTask = "failed" /\ Goto(r, "failed")
    /\ UNCHANGED <<client, ready, initializeTask, tries, error, rejection, crashes>>

Answered(r) ==
    /\ request[r] = "sent" /\ client = "running"
    /\ Goto(r, "answered")
    /\ UNCHANGED <<client, ready, initializeTask, tries, error, rejection, crashes>>

\* The server, or a client that is stopped, rejects the request.
Rejected(r) ==
    /\ request[r] = "sent"
    /\ \E e \in (IF client = "running" THEN Errors ELSE {}) \cup
                (IF client = "stopped" THEN {"other"} ELSE {}) :
           rejection' = [rejection EXCEPT ![r] = e]
    /\ Goto(r, "rejected")
    /\ UNCHANGED <<client, ready, initializeTask, tries, error, crashes>>

\* The end of an iteration: one more attempt, or none.
Again(r, n) ==
    /\ tries' = [tries EXCEPT ![r] = n]
    /\ Goto(r, IF n < MaxTries THEN "sent" ELSE "failed")

\* Mutant: no attempt is counted.
CatchUncounted(r) ==
    /\ request[r] = "rejected"
    /\ error' = [error EXCEPT ![r] = rejection[r]]
    /\ Again(r, tries[r])
    /\ rejection' = [rejection EXCEPT ![r] = "none"]
    /\ UNCHANGED <<client, ready, initializeTask, crashes>>

\* Mutant: the rejection of an attempt is still there in the next one.
CatchKeeps(r) ==
    /\ request[r] = "rejected"
    /\ error' = [error EXCEPT ![r] = rejection[r]]
    /\ Again(r, tries[r])
    /\ UNCHANGED <<client, ready, initializeTask, rejection, crashes>>

\* The attempt is counted by the error that was kept from the attempt before,
\* and the new error is kept when that one was another.
Catch(r) ==
    /\ request[r] = "rejected"
    /\ \/ error[r] = "modified" /\ Again(r, tries[r] + 1) /\ UNCHANGED error
       \/ /\ error[r] # "modified"
          /\ error' = [error EXCEPT ![r] = rejection[r]]
          /\ Again(r, tries[r])
    /\ rejection' = [rejection EXCEPT ![r] = "none"]
    /\ UNCHANGED <<client, ready, initializeTask, crashes>>

-----------------------------------------------------------------------------
(* External: the client and the server process.                              *)

Started ==
    /\ client = "starting"
    /\ client' = "running"
    /\ UNCHANGED <<ready, initializeTask, requests, crashes>>

ProjectsLoaded ==
    /\ client = "running" /\ ~ready
    /\ ready' = TRUE
    /\ UNCHANGED <<client, initializeTask, requests, crashes>>

\* The server dies; a task that was asking is rejected, and so is any subset of
\* the requests, the others having not been written yet.
Crash ==
    /\ client = "running" /\ crashes < MaxCrashes
    /\ crashes' = crashes + 1
    /\ client' = "starting" /\ ready' = FALSE
    /\ initializeTask' \in
           {initializeTask} \cup (IF initializeTask = "asking" THEN {"failed"} ELSE {})
    /\ UNCHANGED requests

RejectedByCrash(r) ==
    /\ request[r] = "sent" /\ client = "starting" /\ crashes > 0
    /\ Goto(r, "rejected")
    /\ rejection' = [rejection EXCEPT ![r] = "other"]
    /\ UNCHANGED <<client, ready, initializeTask, tries, error, crashes>>

Next ==
    \/ Start \/ Stop \/ ReadyAnswered
    \/ \E r \in Requests :
           \/ MakeRequest(r) \/ Initialized(r)
           \/ Answered(r) \/ Rejected(r) \/ Catch(r) \/ RejectedByCrash(r)
    \/ Started \/ ProjectsLoaded \/ Crash

\* The client starts, the server loads its projects and answers or rejects what
\* it is sent.
Fairness ==
    /\ WF_vars(Started) /\ WF_vars(ProjectsLoaded) /\ WF_vars(ReadyAnswered)
    /\ \A r \in Requests :
           /\ WF_vars(Initialized(r))
           /\ WF_vars(Answered(r) \/ Rejected(r))
           /\ WF_vars(Catch(r))

Spec == Init /\ [][Next]_vars
FairSpec == Spec /\ Fairness

-----------------------------------------------------------------------------
(* Properties.                                                               *)

\* Every request is answered or fails (lspEngine.ts:354-383).
EveryRequestEnds ==
    \A r \in Requests : request[r] \in {"initializing", "sent", "rejected"} ~> request[r] \in {"answered", "failed"}

\* A request whose document was modified under it is answered or given up,
\* whatever it is rejected with from then on, and while the server is restarted
\* (lspEngine.ts:370-380).
EveryModifiedRequestEnds ==
    \A r \in Requests : error[r] = "modified" ~> request[r] \in {"answered", "failed"}

=============================================================================
