----------------------------- MODULE RequestQueue -----------------------------
(***************************************************************************)
(* The request queues between the OmniSharp features and the OmniSharp     *)
(* server process: RequestQueue and RequestQueueCollection                 *)
(* (omnisharp/requestQueue.ts), the command priorities                     *)
(* (omnisharp/prioritization.ts) and the request, response and             *)
(* cancellation handlers of StdioEngine (omnisharp/engines/stdioEngine.ts) *)
(* that drive them.                                                        *)
(*                                                                         *)
(* Each handler runs to completion on the extension host's only thread, so *)
(* a handler is one action, the drain it ends with included.  The server   *)
(* process answers the packets it was sent in any order.                   *)
(***************************************************************************)
EXTENDS Integers, FiniteSets, SequencesExt

CONSTANTS
    Requests,           \* the request objects features create
    CommandOf,          \* the command of each request
    PriorityCommands,   \* prioritization.ts: priorityCommands
    NormalCommands,     \* prioritization.ts: normalCommands
    Concurrency         \* the collection's concurrency (StdioEngine passes 8)

ASSUME ConcurrencyAssumption == Concurrency \in Nat \ {0}
ASSUME CommandAssumption == DOMAIN CommandOf = Requests

VARIABLES
    pending,    \* queue -> requests not sent yet, oldest first
    waiting,    \* queue -> map from the id of a sent request to the request
    nextId,     \* StdioEngine._nextId
    owed,       \* the packets the server process has read and not answered
    promise,    \* request -> state of the promise makeRequest returned
    cancelled   \* the requests whose cancellation token has fired

vars == <<pending, waiting, nextId, owed, promise, cancelled>>

QueueNames == {"Priority", "Normal", "Deferred"}

\* The queue a command goes to.
QueueOf(command) ==
    IF command \in PriorityCommands THEN "Priority"
    ELSE IF command \in NormalCommands THEN "Normal"
    ELSE "Deferred"

\* How many requests of a queue may wait for the server at once.
MaxSize(q) ==
    CASE q = "Priority" -> 1
      [] q = "Normal"   -> Concurrency
      [] q = "Deferred" -> IF Concurrency \div 4 > 2 THEN Concurrency \div 4 ELSE 2

-----------------------------------------------------------------------------
(***************************************************************************)
(* The collection's methods, on the pending lists p and the waiting maps w *)
(* of the three queues.                                                    *)
(***************************************************************************)
HasPending(p, q) == p[q] # <<>>

FreeSlots(w, q) == MaxSize(q) - Cardinality(DOMAIN w[q])

IsFull(w, q) == FreeSlots(w, q) <= 0

\* How many requests processPending takes off a queue: the oldest ones, as
\* many as there are free slots.
\* Mutant: the waiting requests are not subtracted.
BatchSizeForgetsWaiting(p, w, q) ==
    IF Len(p[q]) < MaxSize(q) THEN Len(p[q]) ELSE MaxSize(q)

BatchSize(p, w, q) ==
    IF IsFull(w, q) THEN 0
    ELSE IF Len(p[q]) < FreeSlots(w, q) THEN Len(p[q]) ELSE FreeSlots(w, q)

\* The queues drain processes: none while a priority request waits or while
\* both other queues are full; only the priority queue while it has pending
\* requests.
\* Mutant: the other queues are processed after the priority queue.
ProcessedNoReturn(p, w) ==
    IF IsFull(w, "Priority") \/ (IsFull(w, "Normal") /\ IsFull(w, "Deferred")) THEN {}
    ELSE QueueNames

\* Mutant: a waiting priority request holds nothing back.
ProcessedDuringEdit(p, w) ==
    IF IsFull(w, "Normal") /\ IsFull(w, "Deferred") THEN {}
    ELSE IF HasPending(p, "Priority") THEN {"Priority"}
    ELSE {"Normal", "Deferred"}

Processed(p, w) ==
    IF IsFull(w, "Priority") \/ (IsFull(w, "Normal") /\ IsFull(w, "Deferred")) THEN {}
    ELSE IF HasPending(p, "Priority") THEN {"Priority"}
    ELSE {"Normal", "Deferred"}

Sends(p, w) ==
    [q \in QueueNames |-> IF q \in Processed(p, w) THEN BatchSize(p, w, q) ELSE 0]

\* The requests processPending shifts off a list l, n of them, and the rest.
\* Mutant: the newest requests are taken first.
SplitLast(l, n) ==
    [taken |-> SubSeq(l, Len(l) - n + 1, Len(l)), left |-> SubSeq(l, 1, Len(l) - n)]

Split(l, n) == [taken |-> SubSeq(l, 1, n), left |-> SubSeq(l, n + 1, Len(l))]

\* drain, when the queues hold p and w and the server owes answers to o: each
\* request sent gets the next id, is written to the server's input with it and
\* waits under it.  The normal queue goes first.
Drain(p, w, o) ==
    LET n == Sends(p, w)
        first == [q \in QueueNames |-> IF q = "Deferred" THEN nextId + n["Normal"] ELSE nextId]
        new == [q \in QueueNames |-> first[q] .. (first[q] + n[q] - 1)]
        request(q, id) == Split(p[q], n[q]).taken[id - first[q] + 1]
    IN  /\ pending' = [q \in QueueNames |-> Split(p[q], n[q]).left]
        /\ waiting' = [q \in QueueNames |->
                          [id \in DOMAIN w[q] \cup new[q] |->
                              IF id \in new[q] THEN request(q, id) ELSE w[q][id]]]
        /\ nextId' = nextId + n["Priority"] + n["Normal"] + n["Deferred"]
        /\ owed' = o \cup UNION {{[Seq |-> id, Command |-> CommandOf[request(q, id)]]
                                     : id \in new[q]} : q \in QueueNames}

\* RequestQueue.enqueue.
Enqueue(p, r) == [p EXCEPT ![QueueOf(CommandOf[r])] = Append(@, r)]

\* dequeue: the request that waits under the id of an answer is forgotten.
\* Mutant: the answered request keeps its slot.
DequeueKeeps(w, q, id) == w

Dequeue(w, q, id) == [w EXCEPT ![q] = [i \in DOMAIN w[q] \ {id} |-> w[q][i]]]

\* cancelRequest: a pending request is taken off its queue.  Nothing assigns
\* request.id, so the second half of the method (dequeue of a waiting request)
\* never runs: a request the server already has keeps its slot.
\* Mutant: the first request of the queue is removed.
CancelFirst(p, r) ==
    LET q == QueueOf(CommandOf[r])
    IN  IF \E i \in DOMAIN p[q] : p[q][i] = r THEN [p EXCEPT ![q] = Tail(@)] ELSE p

CancelRequest(p, r) ==
    LET q == QueueOf(CommandOf[r])
    IN  IF \E i \in DOMAIN p[q] : p[q][i] = r
        THEN [p EXCEPT ![q] = RemoveAt(@, CHOOSE i \in DOMAIN @ : @[i] = r)]
        ELSE p

-----------------------------------------------------------------------------
\* The initial value of StdioEngine._nextId.
\* Mutant: ids start at 0.
FirstIdZero == 0

FirstId == 1

Init ==
    /\ pending = [q \in QueueNames |-> <<>>]
    /\ waiting = [q \in QueueNames |-> <<>>]
    /\ nextId = FirstId
    /\ owed = {}
    /\ promise = [r \in Requests |-> "none"]
    /\ cancelled = {}

\* A feature makes a request.
MakeRequest(r) ==
    /\ promise[r] = "none"
    /\ promise' = [promise EXCEPT ![r] = "open"]
    /\ Drain(Enqueue(pending, r), waiting, owed)
    /\ UNCHANGED cancelled

\* The cancellation token of a request fires.
Cancel(r) ==
    /\ promise[r] # "none"
    /\ r \notin cancelled
    /\ cancelled' = cancelled \cup {r}
    /\ pending' = CancelRequest(pending, r)
    /\ UNCHANGED <<waiting, nextId, owed, promise>>

\* _handleResponsePacket: a line with the answer to a packet arrives.  The
\* answer carries the packet's command and sequence number; without a request
\* under that number the handler stops before the drain.
HandleResponsePacket(packet, success) ==
    LET q == QueueOf(packet.Command)
        id == packet.Seq
    IN  /\ packet \in owed
        /\ IF id \in DOMAIN waiting[q]
           THEN /\ promise' = [promise EXCEPT ![waiting[q][id]] =
                                IF success THEN "resolved" ELSE "rejected"]
                /\ Drain(pending, Dequeue(waiting, q, id), owed \ {packet})
           ELSE /\ owed' = owed \ {packet}
                /\ UNCHANGED <<pending, waiting, nextId, promise>>
        /\ UNCHANGED cancelled

Next ==
    \/ \E r \in Requests : MakeRequest(r) \/ Cancel(r)
    \/ \E packet \in owed, success \in BOOLEAN : HandleResponsePacket(packet, success)

\* While the server owes answers it gives one sooner or later.  Features are
\* free not to make requests and tokens not to fire.
Fairness ==
    WF_vars(\E packet \in owed, success \in BOOLEAN : HandleResponsePacket(packet, success))

Spec == Init /\ [][Next]_vars /\ Fairness

-----------------------------------------------------------------------------
(***************************************************************************)
(* Properties                                                              *)
(***************************************************************************)
Packets == [Seq : Nat, Command : {CommandOf[r] : r \in Requests}]

\* The type of every variable; ids are below nextId (requestQueue.ts:30-31,
\* stdioEngine.ts:54).
TypeOK ==
    /\ pending \in [QueueNames -> Seq(Requests)]
    /\ DOMAIN waiting = QueueNames
    /\ \A q \in QueueNames :
          /\ DOMAIN waiting[q] \subseteq 1 .. (nextId - 1)
          /\ waiting[q] \in [DOMAIN waiting[q] -> Requests]
    /\ nextId \in Nat \ {0}
    /\ owed \subseteq Packets
    /\ promise \in [Requests -> {"none", "open", "resolved", "rejected"}]
    /\ cancelled \subseteq Requests

\* No more requests of a queue wait for the server than the queue's maximum
\* ("Returns true if the maximum number of requests waiting on the OmniSharp
\* server has been reached", requestQueue.ts:82).
CapacityRespected ==
    \A q \in QueueNames : Cardinality(DOMAIN waiting[q]) <= MaxSize(q)

IsPending(r) == \E i \in DOMAIN pending[QueueOf(CommandOf[r])] :
                    pending[QueueOf(CommandOf[r])][i] = r

IsWaiting(r) == \E id \in DOMAIN waiting[QueueOf(CommandOf[r])] :
                    waiting[QueueOf(CommandOf[r])][id] = r

\* A request whose promise is open is in exactly one place of its queue,
\* pending or waiting, or was taken off by its cancellation; one whose promise
\* is settled is nowhere.
InOnePlace ==
    \A r \in Requests :
        /\ promise[r] = "open" => IsPending(r) \/ IsWaiting(r) \/ r \in cancelled
        /\ ~(IsPending(r) /\ IsWaiting(r))
        /\ promise[r] # "open" => ~IsPending(r) /\ ~IsWaiting(r)

\* The server owes an answer for exactly the requests that wait, under the
\* same id and in the same queue: no answer is dropped as "could not find
\* request" (stdioEngine.ts:430-437) and no waiting request stays unanswered.
EveryAnswerAwaited ==
    owed = UNION {{[Seq |-> id, Command |-> CommandOf[waiting[q][id]]]
                      : id \in DOMAIN waiting[q]} : q \in QueueNames}

\* No request is lost on the way through enqueue, processPending, dequeue and
\* cancelRequest (requestQueue.ts:43-196), none is answered twice, and none waits
\* for an answer that was dropped.
NoRequestLost == InOnePlace /\ EveryAnswerAwaited

Sent(r) == ~IsWaiting(r) /\ IsWaiting(r)'

\* r1 was made before r2 and still waits in the queue the two share.
Ahead(r1, r2) ==
    LET q == QueueOf(CommandOf[r1])
    IN  /\ r1 # r2
        /\ q = QueueOf(CommandOf[r2])
        /\ \E i \in DOMAIN pending[q] :
              pending[q][i] = r1 /\ \A j \in 1 .. (i - 1) : pending[q][j] # r2

WaitsUnder(r, id) ==
    LET q == QueueOf(CommandOf[r])
    IN  id \in DOMAIN waiting[q] /\ waiting[q][id] = r

\* A step that sends requests of another queue starts with no priority request
\* pending and ends with none at the server.
PriorityFirst ==
    (\E r \in Requests : Sent(r) /\ QueueOf(CommandOf[r]) # "Priority") =>
        /\ pending["Priority"] = <<>>
        /\ DOMAIN waiting'["Priority"] = {}

\* A step that sends r2, which r1 is ahead of, has sent r1 too, under a smaller id.
OrderKept ==
    \A r1, r2 \in Requests :
        Ahead(r1, r2) /\ Sent(r2) =>
            \E a, b \in 1 .. nextId' : a < b /\ WaitsUnder(r1, a)' /\ WaitsUnder(r2, b)'

\* The requests of a queue are sent in the order they were made, their ids have
\* that order, and an edit (a priority command) is never overtaken by a request
\* of another queue made after it (requestQueue.ts:165-196).
SentInOrder == [][OrderKept /\ PriorityFirst]_vars

\* Every promise settles, except those of requests cancelled before they were
\* sent: no mix of full queues and cancellations leaves a request behind.
EveryPromiseSettles ==
    \A r \in Requests :
        promise[r] = "open" ~>
            \/ promise[r] \in {"resolved", "rejected"}
            \/ r \in cancelled /\ ~IsPending(r) /\ ~IsWaiting(r)

\* The requests as the features see them.
StatusOf(r) ==
    CASE promise[r] = "none" -> "none"
      [] promise[r] \in {"resolved", "rejected"} -> "settled"
      [] promise[r] = "open" /\ IsPending(r) -> "queued"
      [] promise[r] = "open" /\ IsWaiting(r) -> "sent"
      [] OTHER -> "dropped"

Status == [r \in Requests |-> StatusOf(r)]

Service ==
    INSTANCE RequestService WITH
        status <- Status,
        Classes <- QueueNames,
        Urgent <- "Priority",
        ClassOf <- LAMBDA r : QueueOf(CommandOf[r]),
        Capacity <- MaxSize

\* The three queues, drained and refilled by makeRequest, cancelRequest and
\* _handleResponsePacket, implement the service features rely on.
ImplementsService == Service!Spec
=============================================================================
