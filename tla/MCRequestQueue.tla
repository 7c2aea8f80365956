---------------------------- MODULE MCRequestQueue ----------------------------
(***************************************************************************)
(* Model checking RequestQueue: one priority, two normal and three         *)
(* deferred requests.  Concurrency 1 gives the queues the sizes 1, 1 and   *)
(* 2, so every queue can overflow while another one still has room.        *)
(* For liveness four requests and no symmetry: the normal and the deferred *)
(* queue can both be full, which blocks the priority queue too.            *)
(***************************************************************************)
EXTENDS RequestQueue

CONSTANTS p1, n1, n2, d1, d2, d3

MCRequests == {p1, n1, n2, d1, d2, d3}
MCFewRequests == {p1, n1, d1, d2}

MCCommandOf ==
    [r \in Requests |-> CASE r = p1 -> "UpdateBuffer"
                           [] r \in {n1, n2} -> "Completion"
                           [] OTHER          -> "CodeCheck"]

MCPriorityCommands == {"ChangeBuffer", "FormatAfterKeystroke", "FormatRange", "UpdateBuffer"}

MCNormalCommands ==
    {"Completion", "CompletionResolve", "FilesChanged", "FindSymbols", "FindUsages",
     "GetCodeActions", "GoToDefinition", "RunCodeAction", "SignatureHelp", "TypeLookup",
     "GoToTypeDefinition"}

\* Requests of one command are interchangeable.
MCSymmetry == Permutations({n1, n2}) \cup Permutations({d1, d2, d3})
=============================================================================
