---------------------------- MODULE RequestService ----------------------------
(***************************************************************************)
(* What the features may count on when they make requests of the OmniSharp *)
(* server, whatever the queues inside look like: a request is queued, sent *)
(* and settled, or dropped before it is sent; a class of requests never    *)
(* has more than its capacity at the server; and a request of an ordinary  *)
(* class is only sent when no urgent request is queued or at the server.   *)
(* RequestQueue implements this.                                           *)
(***************************************************************************)
EXTENDS Naturals, FiniteSets

CONSTANTS
    Requests,
    Classes,
    Urgent,             \* the class that goes first
    ClassOf(_),         \* the class of a request
    Capacity(_)         \* how many requests of a class may be at the server

VARIABLE status

Statuses == {"none", "queued", "sent", "settled", "dropped"}

Init == status = [r \in Requests |-> "none"]

With(st, s) == {r \in Requests : st[r] = s}

\* What may happen to one request in one step.
Moves ==
    {<<s, s>> : s \in Statuses} \cup
    {<<"none", "queued">>, <<"none", "sent">>, <<"queued", "sent">>,
     <<"queued", "dropped">>, <<"sent", "settled">>}

Next ==
    /\ status' \in [Requests -> Statuses]
    /\ \A r \in Requests : <<status[r], status'[r]>> \in Moves
    /\ \A c \in Classes :
          Cardinality({r \in With(status', "sent") : ClassOf(r) = c}) <= Capacity(c)
    /\ (\E r \in With(status', "sent") \ With(status, "sent") : ClassOf(r) # Urgent) =>
          \A r \in With(status', "sent") \cup With(status', "queued") : ClassOf(r) # Urgent
    \* one feature call, one answer or one cancellation at a time
    /\ Cardinality(With(status, "none") \ With(status', "none")) <= 1
    /\ Cardinality(With(status', "settled") \ With(status, "settled")) <= 1
    /\ Cardinality(With(status', "dropped") \ With(status, "dropped")) <= 1

Spec == Init /\ [][Next]_status
=============================================================================
