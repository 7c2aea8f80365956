-------------------------- MODULE RequestQueueProofs --------------------------
(***************************************************************************)
(* Proofs about RequestQueue, for any requests, commands and concurrency:  *)
(* type correctness and the capacity of the three queues.                  *)
(***************************************************************************)
EXTENDS RequestQueue, SequenceTheorems, FiniteSetTheorems, TLAPS

\* The type of the waiting maps when n is the next id.
WaitingOK(w, n) ==
    /\ DOMAIN w = QueueNames
    /\ \A q \in QueueNames :
          /\ DOMAIN w[q] \subseteq 1 .. (n - 1)
          /\ w[q] \in [DOMAIN w[q] -> Requests]

\* The capacity of the three queues.
Bounded(w) == \A q \in QueueNames : Cardinality(DOMAIN w[q]) <= MaxSize(q)

\* Every command belongs to a queue.
LEMMA QueueOfType == \A c : QueueOf(c) \in QueueNames
  BY DEF QueueOf, QueueNames

\* Every queue has room for a request at least (requestQueue.ts:145-148).
LEMMA MaxSizeType == \A q \in QueueNames : MaxSize(q) \in Nat \ {0}
  <1>1. Concurrency \div 4 \in Nat
    BY ConcurrencyAssumption
  <1> QED
    BY <1>1, ConcurrencyAssumption DEF QueueNames, MaxSize

\* The ids in use are finitely many.
LEMMA WaitingFinite ==
  ASSUME NEW w, NEW n \in Nat \ {0}, WaitingOK(w, n), NEW q \in QueueNames
  PROVE  IsFiniteSet(DOMAIN w[q]) /\ Cardinality(DOMAIN w[q]) \in Nat
  <1>1. IsFiniteSet(1 .. (n - 1))
    BY FS_Interval
  <1>2. DOMAIN w[q] \in SUBSET (1 .. (n - 1))
    BY DEF WaitingOK
  <1>3. IsFiniteSet(DOMAIN w[q])
    BY <1>1, <1>2, FS_Subset
  <1> QED
    BY <1>3, FS_CardinalityType

\* A drain takes no more from a queue than the queue holds, and no more than
\* its free slots.
LEMMA SendsFit ==
  ASSUME NEW p \in [QueueNames -> Seq(Requests)],
         NEW w, NEW n \in Nat \ {0}, WaitingOK(w, n), Bounded(w),
         NEW q \in QueueNames
  PROVE  /\ Sends(p, w)[q] \in 0 .. Len(p[q])
         /\ Cardinality(DOMAIN w[q]) + Sends(p, w)[q] <= MaxSize(q)
  <1>1. MaxSize(q) \in Nat /\ Cardinality(DOMAIN w[q]) \in Nat /\ Len(p[q]) \in Nat
    BY MaxSizeType, WaitingFinite, LenProperties
  <1>2. Cardinality(DOMAIN w[q]) <= MaxSize(q)
    BY DEF Bounded
  <1>3. /\ BatchSize(p, w, q) \in 0 .. Len(p[q])
        /\ Cardinality(DOMAIN w[q]) + BatchSize(p, w, q) <= MaxSize(q)
    BY <1>1, <1>2 DEF BatchSize, IsFull, FreeSlots
  <1>4. Sends(p, w)[q] = IF q \in Processed(p, w) THEN BatchSize(p, w, q) ELSE 0
    BY DEF Sends
  <1> QED
    BY <1>1, <1>2, <1>3, <1>4

\* A drain keeps the types and the capacities: the ids it hands out are new,
\* so a queue grows by exactly the requests taken off its list.
LEMMA DrainKeepsTypes ==
  ASSUME NEW p \in [QueueNames -> Seq(Requests)],
         NEW w, WaitingOK(w, nextId), Bounded(w), nextId \in Nat \ {0},
         NEW o \in SUBSET Packets,
         Drain(p, w, o)
  PROVE  /\ pending' \in [QueueNames -> Seq(Requests)]
         /\ WaitingOK(waiting', nextId')
         /\ Bounded(waiting')
         /\ nextId' \in Nat \ {0}
         /\ owed' \subseteq Packets
  <1> DEFINE n == Sends(p, w)
             first == [q \in QueueNames |-> IF q = "Deferred" THEN nextId + n["Normal"] ELSE nextId]
             new == [q \in QueueNames |-> first[q] .. (first[q] + n[q] - 1)]
             request(q, id) == Split(p[q], n[q]).taken[id - first[q] + 1]
  <1>1. /\ pending' = [q \in QueueNames |-> Split(p[q], n[q]).left]
        /\ waiting' = [q \in QueueNames |->
                          [id \in DOMAIN w[q] \cup new[q] |->
                              IF id \in new[q] THEN request(q, id) ELSE w[q][id]]]
        /\ nextId' = nextId + n["Priority"] + n["Normal"] + n["Deferred"]
        /\ owed' = o \cup UNION {{[Seq |-> id, Command |-> CommandOf[request(q, id)]]
                                     : id \in new[q]} : q \in QueueNames}
    BY Zenon DEF Drain
  <1>2. \A q \in QueueNames : /\ n[q] \in Nat /\ n[q] <= Len(p[q]) /\ Len(p[q]) \in Nat
                              /\ Cardinality(DOMAIN w[q]) + n[q] <= MaxSize(q)
    BY SendsFit, LenProperties
  <1>3. \A q \in QueueNames : first[q] \in Nat \ {0} /\ nextId <= first[q]
    BY <1>2 DEF QueueNames
  <1>4. nextId' \in Nat \ {0} /\ \A q \in QueueNames : first[q] + n[q] <= nextId'
    BY SMTT(30), <1>1, <1>2 DEF QueueNames
  <1>5. ASSUME NEW q \in QueueNames
        PROVE  /\ Split(p[q], n[q]).left \in Seq(Requests)
               /\ \A id \in new[q] : request(q, id) \in Requests
    <2>1. \A i \in 1 .. Len(p[q]) : p[q][i] \in Requests
      BY ElementOfSeq
    <2>2. SubSeq(p[q], n[q] + 1, Len(p[q])) \in Seq(Requests)
      BY <1>2, <2>1, SubSeqProperties
    <2>3. /\ \A i \in 1 .. n[q] : p[q][i] \in Requests
          /\ 1 \in Int /\ n[q] \in Int
      BY <1>2, <2>1
    <2>4. \A i \in 1 .. n[q] - 1 + 1 : SubSeq(p[q], 1, n[q])[i] = p[q][1 + i - 1]
      BY <2>3, SubSeqProperties
    <2>5. \A i \in 1 .. n[q] : SubSeq(p[q], 1, n[q])[i] \in Requests
      BY <1>2, <2>3, <2>4
    <2>6. \A id \in new[q] : id - first[q] + 1 \in 1 .. n[q]
      BY <1>2, <1>3
    <2> HIDE DEF n, first, new
    <2> QED
      BY <2>2, <2>5, <2>6 DEF Split
  <1>6. pending' \in [QueueNames -> Seq(Requests)]
    BY <1>1, <1>5
  <1>7. ASSUME NEW q \in QueueNames
        PROVE  /\ new[q] \subseteq 1 .. (nextId' - 1)
               /\ DOMAIN w[q] \subseteq 1 .. (nextId' - 1)
    <2>1. new[q] = first[q] .. (first[q] + n[q] - 1)
      OBVIOUS
    <2>2. DOMAIN w[q] \subseteq 1 .. (nextId - 1)
      BY DEF WaitingOK
    <2> HIDE DEF n, first, new
    <2> QED
      BY <1>2, <1>3, <1>4, <2>1, <2>2
  <1>8. WaitingOK(waiting', nextId')
    <2>1. ASSUME NEW q \in QueueNames
          PROVE  /\ DOMAIN waiting'[q] = DOMAIN w[q] \cup new[q]
                 /\ waiting'[q] \in [DOMAIN waiting'[q] -> Requests]
      <3>1. w[q] \in [DOMAIN w[q] -> Requests]
        BY DEF WaitingOK
      <3> HIDE DEF n, first, new, request
      <3> QED
        BY <1>1, <1>5, <3>1
    <2>2. DOMAIN waiting' = QueueNames
      BY <1>1
    <2> HIDE DEF n, first, new, request
    <2> QED
      BY <1>7, <2>1, <2>2 DEF WaitingOK
  <1>9. Bounded(waiting')
    <2> SUFFICES ASSUME NEW q \in QueueNames
                 PROVE  Cardinality(DOMAIN waiting'[q]) <= MaxSize(q)
      BY DEF Bounded
    <2>1. DOMAIN waiting'[q] = DOMAIN w[q] \cup new[q]
      BY <1>1
    <2>2. IsFiniteSet(new[q]) /\ Cardinality(new[q]) = n[q]
      <3>1. new[q] = first[q] .. (first[q] + n[q] - 1)
        OBVIOUS
      <3>2. first[q] \in Int /\ n[q] \in Nat /\ first[q] + n[q] - 1 \in Int
        BY <1>2, <1>3
      <3> HIDE DEF n, first, new
      <3>3. /\ IsFiniteSet(first[q] .. (first[q] + n[q] - 1))
            /\ Cardinality(first[q] .. (first[q] + n[q] - 1)) =
                 IF first[q] > first[q] + n[q] - 1 THEN 0
                 ELSE (first[q] + n[q] - 1) - first[q] + 1
        BY <3>2, FS_Interval
      <3> QED
        BY <3>1, <3>2, <3>3
    <2>3. IsFiniteSet(DOMAIN w[q]) /\ Cardinality(DOMAIN w[q]) \in Nat
      BY WaitingFinite
    <2>4. /\ IsFiniteSet(DOMAIN w[q] \cup new[q])
          /\ Cardinality(DOMAIN w[q] \cup new[q]) =
               Cardinality(DOMAIN w[q]) + Cardinality(new[q]) - Cardinality(DOMAIN w[q] \cap new[q])
          /\ Cardinality(DOMAIN w[q] \cap new[q]) \in Nat
      <3> HIDE DEF new
      <3>1. IsFiniteSet(DOMAIN w[q] \cap new[q])
        BY <2>3, FS_Intersection
      <3> QED
        BY <2>2, <2>3, <3>1, FS_Union, FS_CardinalityType
    <2> HIDE DEF n, first, new
    <2> QED
      BY <1>2, <2>1, <2>2, <2>3, <2>4, MaxSizeType
  <1>10. owed' \subseteq Packets
    <2>1. ASSUME NEW q \in QueueNames, NEW id \in new[q]
          PROVE  [Seq |-> id, Command |-> CommandOf[request(q, id)]] \in Packets
      <3>1. id \in Nat
        BY <1>7
      <3>2. request(q, id) \in Requests
        BY <1>5
      <3> HIDE DEF n, first, new, request
      <3> QED
        BY <3>1, <3>2 DEF Packets
    <2> HIDE DEF n, first, new, request
    <2> QED
      BY <1>1, <2>1
  <1> QED
    BY <1>4, <1>6, <1>8, <1>9, <1>10

\* What the proof of the next theorem carries along: the type invariant says
\* nothing of the size of the maps, the capacity nothing of their type, and a
\* drain needs both to keep either.
IInv == TypeOK /\ CapacityRespected

\* The parts of TypeOK that most steps need.
LEMMA TypeOKParts == TypeOK => /\ pending \in [QueueNames -> Seq(Requests)]
                               /\ WaitingOK(waiting, nextId)
                               /\ nextId \in Nat \ {0}
                               /\ owed \in SUBSET Packets
  BY DEF TypeOK, WaitingOK

\* Enqueuing a request leaves a list of requests.
LEMMA EnqueueType ==
  ASSUME NEW p \in [QueueNames -> Seq(Requests)], NEW r \in Requests
  PROVE  Enqueue(p, r) \in [QueueNames -> Seq(Requests)]
  <1>1. QueueOf(CommandOf[r]) \in QueueNames
    BY QueueOfType
  <1>2. Append(p[QueueOf(CommandOf[r])], r) \in Seq(Requests)
    BY <1>1, AppendProperties
  <1> QED
    BY <1>1, <1>2 DEF Enqueue

\* Taking a request off a list leaves a list of requests.
LEMMA CancelRequestType ==
  ASSUME NEW p \in [QueueNames -> Seq(Requests)], NEW r \in Requests
  PROVE  CancelRequest(p, r) \in [QueueNames -> Seq(Requests)]
  <1> DEFINE q == QueueOf(CommandOf[r])
             i == CHOOSE j \in DOMAIN p[q] : p[q][j] = r
  <1>1. q \in QueueNames
    BY QueueOfType
  <1>2. p[q] \in Seq(Requests) /\ Len(p[q]) \in Nat /\ DOMAIN p[q] = 1 .. Len(p[q])
    BY <1>1, LenProperties
  <1>3. CASE \E j \in DOMAIN p[q] : p[q][j] = r
    <2>1. i \in 1 .. Len(p[q])
      BY <1>2, <1>3
    <2>2. \A j \in 1 .. Len(p[q]) : p[q][j] \in Requests
      BY <1>2, ElementOfSeq
    <2> HIDE DEF i, q
    <2>3. SubSeq(p[q], 1, i - 1) \in Seq(Requests)
      BY <1>2, <2>1, <2>2, SubSeqProperties
    <2>4. SubSeq(p[q], i + 1, Len(p[q])) \in Seq(Requests)
      BY <1>2, <2>1, <2>2, SubSeqProperties
    <2>5. RemoveAt(p[q], i) \in Seq(Requests)
      BY <2>3, <2>4, ConcatProperties DEF RemoveAt
    <2>6. CancelRequest(p, r) = [p EXCEPT ![q] = RemoveAt(p[q], i)]
      BY <1>1, <1>3 DEF CancelRequest, q, i
    <2> QED
      BY <1>1, <2>5, <2>6
  <1>4. CASE ~ \E j \in DOMAIN p[q] : p[q][j] = r
    BY <1>4 DEF CancelRequest
  <1> QED
    BY <1>3, <1>4

\* Forgetting an answered request keeps the type and frees a slot.
LEMMA DequeueType ==
  ASSUME NEW w, NEW n \in Nat \ {0}, WaitingOK(w, n), Bounded(w),
         NEW q \in QueueNames, NEW id
  PROVE  WaitingOK(Dequeue(w, q, id), n) /\ Bounded(Dequeue(w, q, id))
  <1> DEFINE d == Dequeue(w, q, id)
  <1>1. DOMAIN d = QueueNames
    BY DEF Dequeue, WaitingOK
  <1>2. ASSUME NEW k \in QueueNames, k # q
        PROVE  d[k] = w[k]
    BY <1>2 DEF Dequeue, WaitingOK
  <1>3. d[q] = [j \in DOMAIN w[q] \ {id} |-> w[q][j]]
    BY DEF Dequeue, WaitingOK
  <1>4. DOMAIN d[q] = DOMAIN w[q] \ {id}
    BY <1>3
  <1>5. Cardinality(DOMAIN d[q]) <= MaxSize(q)
    <2>1. IsFiniteSet(DOMAIN w[q]) /\ Cardinality(DOMAIN w[q]) \in Nat
      BY WaitingFinite
    <2>2. /\ IsFiniteSet(DOMAIN d[q])
          /\ Cardinality(DOMAIN d[q]) <= Cardinality(DOMAIN w[q])
      BY <1>4, <2>1, FS_Subset
    <2>3. Cardinality(DOMAIN d[q]) \in Nat
      BY <2>2, FS_CardinalityType
    <2> QED
      BY <2>1, <2>2, <2>3, MaxSizeType DEF Bounded
  <1>6. d[q] \in [DOMAIN d[q] -> Requests] /\ DOMAIN d[q] \subseteq 1 .. (n - 1)
    <2>1. w[q] \in [DOMAIN w[q] -> Requests] /\ DOMAIN w[q] \subseteq 1 .. (n - 1)
      BY DEF WaitingOK
    <2> HIDE DEF d
    <2> QED
      BY <1>3, <1>4, <2>1
  <1> HIDE DEF d
  <1>7. WaitingOK(d, n)
    BY <1>1, <1>2, <1>6 DEF WaitingOK
  <1>8. Bounded(d)
    BY <1>2, <1>5 DEF Bounded
  <1> QED
    BY <1>7, <1>8 DEF d

\* The queues are empty at first.
LEMMA InitIInv == Init => IInv
  <1> SUFFICES ASSUME Init
               PROVE  IInv
    OBVIOUS
  <1>1. DOMAIN (<<>>) = {} /\ <<>> \in Seq(Requests)
    BY EmptySeq
  <1>2. \A q \in QueueNames : DOMAIN waiting[q] = {}
    BY <1>1 DEF Init
  <1>3. WaitingOK(waiting, nextId)
    BY <1>2 DEF Init, WaitingOK, FirstId
  <1>4. CapacityRespected
    BY <1>2, FS_EmptySet, MaxSizeType DEF CapacityRespected
  <1>5. TypeOK
    BY <1>1, <1>3 DEF Init, TypeOK, WaitingOK, FirstId
  <1> QED
    BY <1>4, <1>5 DEF IInv

\* Every step keeps the types and the capacities.
LEMMA NextIInv == IInv /\ [Next]_vars => IInv'
  <1> SUFFICES ASSUME IInv, [Next]_vars
               PROVE  IInv'
    OBVIOUS
  <1>1. /\ pending \in [QueueNames -> Seq(Requests)]
        /\ WaitingOK(waiting, nextId)
        /\ nextId \in Nat \ {0}
        /\ owed \in SUBSET Packets
        /\ promise \in [Requests -> {"none", "open", "resolved", "rejected"}]
        /\ cancelled \subseteq Requests
    BY TypeOKParts DEF IInv, TypeOK
  <1>2. Bounded(waiting)
    BY DEF IInv, CapacityRespected, Bounded
  \* It is enough that a step keeps the types part by part.
  <1>3. ASSUME pending' \in [QueueNames -> Seq(Requests)],
               WaitingOK(waiting', nextId'), Bounded(waiting'), nextId' \in Nat \ {0},
               owed' \subseteq Packets,
               promise' \in [Requests -> {"none", "open", "resolved", "rejected"}],
               cancelled' \subseteq Requests
        PROVE  IInv'
    BY <1>3 DEF IInv, TypeOK, WaitingOK, CapacityRespected, Bounded
  <1>4. ASSUME NEW r \in Requests, MakeRequest(r)
        PROVE  IInv'
    <2>1. /\ Enqueue(pending, r) \in [QueueNames -> Seq(Requests)]
          /\ Drain(Enqueue(pending, r), waiting, owed)
      BY <1>1, <1>4, EnqueueType DEF MakeRequest
    <2>2. /\ promise' \in [Requests -> {"none", "open", "resolved", "rejected"}]
          /\ cancelled' \subseteq Requests
      BY <1>1, <1>4 DEF MakeRequest
    <2> QED
      BY <1>1, <1>2, <1>3, <2>1, <2>2, DrainKeepsTypes
  <1>5. ASSUME NEW r \in Requests, Cancel(r)
        PROVE  IInv'
    BY <1>1, <1>2, <1>3, <1>5, CancelRequestType DEF Cancel
  <1>6. ASSUME NEW packet \in owed, NEW success \in BOOLEAN,
               HandleResponsePacket(packet, success)
        PROVE  IInv'
    <2> DEFINE q == QueueOf(packet.Command)
    <2>1. q \in QueueNames /\ cancelled' \subseteq Requests
      BY <1>1, <1>6, QueueOfType DEF HandleResponsePacket
    <2>2. CASE packet.Seq \in DOMAIN waiting[q]
      <3>1. Drain(pending, Dequeue(waiting, q, packet.Seq), owed \ {packet})
        BY <1>6, <2>2 DEF HandleResponsePacket
      <3>2. /\ WaitingOK(Dequeue(waiting, q, packet.Seq), nextId)
            /\ Bounded(Dequeue(waiting, q, packet.Seq))
        BY <1>1, <1>2, <2>1, DequeueType
      <3>3. waiting[q][packet.Seq] \in Requests
        BY <1>1, <2>1, <2>2 DEF WaitingOK
      <3>4. promise' \in [Requests -> {"none", "open", "resolved", "rejected"}]
        BY <1>1, <1>6, <2>2, <3>3 DEF HandleResponsePacket
      <3>5. owed \ {packet} \in SUBSET Packets
        BY <1>1
      <3> HIDE DEF q
      <3> QED
        BY <1>1, <1>3, <2>1, <3>1, <3>2, <3>4, <3>5, DrainKeepsTypes
    <2>3. CASE packet.Seq \notin DOMAIN waiting[q]
      BY <1>1, <1>2, <1>3, <1>6, <2>1, <2>3 DEF HandleResponsePacket
    <2> QED
      BY <2>2, <2>3
  <1>7. CASE UNCHANGED vars
    BY <1>1, <1>2, <1>3, <1>7 DEF vars
  <1> QED
    BY <1>4, <1>5, <1>6, <1>7 DEF Next

\* Type correctness and capacity of the queues, for every set of requests and
\* every concurrency.
THEOREM SpecIInv == Spec => []IInv
  BY InitIInv, NextIInv, PTL DEF Spec

\* The variables keep their types: every id in use is below nextId, so no id is
\* handed out twice (stdioEngine.ts:471).
THEOREM TypeCorrect == Spec => []TypeOK
  <1>1. IInv => TypeOK
    BY DEF IInv
  <1> QED
    BY <1>1, SpecIInv, PTL

\* No queue ever has more requests at the server than its maximum size
\* (requestQueue.ts:82).
THEOREM CapacityCorrect == Spec => []CapacityRespected
  <1>1. IInv => CapacityRespected
    BY DEF IInv
  <1> QED
    BY <1>1, SpecIInv, PTL

-----------------------------------------------------------------------------
(***************************************************************************)
(* No request is lost.                                                     *)
(*                                                                         *)
(* The property is not inductive: that a request is not both pending and   *)
(* waiting after a drain depends on it being listed once before, and that  *)
(* no answer is dropped on a request waiting in the queue of its command,  *)
(* under one id only.                                                      *)
(***************************************************************************)
Listed(l, r) == \E i \in DOMAIN l : l[i] = r
Held(m, r) == \E id \in DOMAIN m : m[id] = r

\* The list l and the map m of queue q: its own requests, each of them once.
TidyQueue(l, m, q) ==
    /\ \A i \in DOMAIN l : QueueOf(CommandOf[l[i]]) = q
    /\ \A i, j \in DOMAIN l : l[i] = l[j] => i = j
    /\ \A a \in DOMAIN m : QueueOf(CommandOf[m[a]]) = q
    /\ \A a, b \in DOMAIN m : m[a] = m[b] => a = b
    /\ \A i \in DOMAIN l, a \in DOMAIN m : l[i] # m[a]

Tidy(p, w) == \A q \in QueueNames : TidyQueue(p[q], w[q], q)

\* The answers owed for the requests of w.
Answers(w) ==
    UNION {{[Seq |-> id, Command |-> CommandOf[w[q][id]]] : id \in DOMAIN w[q]} : q \in QueueNames}

\* What an answer owed for some request is.
LEMMA AnswersMember ==
  \A w, x : x \in Answers(w) <=>
              \E q \in QueueNames : \E id \in DOMAIN w[q] :
                  x = [Seq |-> id, Command |-> CommandOf[w[q][id]]]
  BY DEF Answers

\* The first n requests of the list l go to the map m, under the ids from f on;
\* l2 and m2 are what the list and the map are then.
Takes(l, m, l2, m2, n, f) ==
    /\ n \in 0 .. Len(l) /\ f \in Nat
    /\ DOMAIN l2 = 1 .. (Len(l) - n)
    /\ \A i \in 1 .. (Len(l) - n) : l2[i] = l[i + n]
    /\ DOMAIN m2 = DOMAIN m \cup f .. (f + n - 1)
    /\ \A a \in DOMAIN m : a < f /\ m2[a] = m[a]
    /\ \A a \in f .. (f + n - 1) : m2[a] = l[a - f + 1]

\* What a drain does to each queue, and to the answers owed.
LEMMA DrainTakes ==
  ASSUME NEW p \in [QueueNames -> Seq(Requests)],
         NEW w, WaitingOK(w, nextId), Bounded(w), nextId \in Nat \ {0},
         NEW o, Drain(p, w, o)
  PROVE  /\ \A q \in QueueNames : \E n, f \in Nat :
               /\ Takes(p[q], w[q], pending'[q], waiting'[q], n, f)
               /\ f + n <= nextId'
               /\ n > 0 => q \in Processed(p, w)
         /\ o = Answers(w) => owed' = Answers(waiting')
  <1> DEFINE n == Sends(p, w)
             first == [q \in QueueNames |-> IF q = "Deferred" THEN nextId + n["Normal"] ELSE nextId]
             new == [q \in QueueNames |-> first[q] .. (first[q] + n[q] - 1)]
             request(q, id) == Split(p[q], n[q]).taken[id - first[q] + 1]
  <1>1. /\ pending' = [q \in QueueNames |-> Split(p[q], n[q]).left]
        /\ waiting' = [q \in QueueNames |->
                          [id \in DOMAIN w[q] \cup new[q] |->
                              IF id \in new[q] THEN request(q, id) ELSE w[q][id]]]
        /\ nextId' = nextId + n["Priority"] + n["Normal"] + n["Deferred"]
        /\ owed' = o \cup UNION {{[Seq |-> id, Command |-> CommandOf[request(q, id)]]
                                     : id \in new[q]} : q \in QueueNames}
    BY Zenon DEF Drain
  <1>2. \A q \in QueueNames : n[q] \in Nat /\ n[q] \in 0 .. Len(p[q]) /\ Len(p[q]) \in Nat
    BY SendsFit, LenProperties
  <1>3. \A q \in QueueNames : /\ first[q] \in Nat \ {0} /\ nextId <= first[q]
                              /\ first[q] + n[q] <= nextId'
    <2>1. \A q \in QueueNames : first[q] \in Nat \ {0} /\ nextId <= first[q]
      BY <1>2 DEF QueueNames
    <2>2. \A q \in QueueNames : first[q] + n[q] <= nextId'
      BY SMTT(30), <1>1, <1>2 DEF QueueNames
    <2>. QED BY <2>1, <2>2
  <1>4. ASSUME NEW q \in QueueNames
        PROVE  /\ Takes(p[q], w[q], pending'[q], waiting'[q], n[q], first[q])
               /\ n[q] > 0 => q \in Processed(p, w)
    <2>1. n[q] > 0 => q \in Processed(p, w)
      BY DEF Sends
    <2>2. new[q] = first[q] .. (first[q] + n[q] - 1)
      OBVIOUS
    <2>3. DOMAIN w[q] \subseteq 1 .. (nextId - 1)
      BY DEF WaitingOK
    <2>4. pending'[q] = SubSeq(p[q], n[q] + 1, Len(p[q]))
      BY <1>1 DEF Split
    <2>5. /\ waiting'[q] = [id \in DOMAIN w[q] \cup new[q] |->
                              IF id \in new[q] THEN SubSeq(p[q], 1, n[q])[id - first[q] + 1] ELSE w[q][id]]
      BY <1>1 DEF Split
    <2> HIDE DEF n, first, new, request
    <2>6. \A i \in 1 .. Len(p[q]) : p[q][i] \in Requests
      BY ElementOfSeq
    <2>7. /\ DOMAIN pending'[q] = 1 .. (Len(p[q]) - n[q])
          /\ \A i \in 1 .. (Len(p[q]) - n[q]) : pending'[q][i] = p[q][i + n[q]]
      <3>1. \A i \in (n[q] + 1) .. Len(p[q]) : p[q][i] \in Requests
        BY <1>2, <2>6
      <3>2. n[q] + 1 \in Int /\ Len(p[q]) \in Int
        BY <1>2
      <3>3. CASE n[q] = Len(p[q])
        <4>1. SubSeq(p[q], n[q] + 1, Len(p[q])) = <<>>
          BY <1>2, <3>1, <3>2, <3>3, SubSeqProperties
        <4>. QED BY <1>2, <2>4, <3>3, <4>1
      <3>4. CASE n[q] < Len(p[q])
        <4>1. /\ Len(SubSeq(p[q], n[q] + 1, Len(p[q]))) = Len(p[q]) - (n[q] + 1) + 1
              /\ \A i \in 1 .. (Len(p[q]) - (n[q] + 1) + 1) :
                    SubSeq(p[q], n[q] + 1, Len(p[q]))[i] = p[q][(n[q] + 1) + i - 1]
              /\ SubSeq(p[q], n[q] + 1, Len(p[q])) \in Seq(Requests)
          BY SMTT(30), <1>2, <3>1, <3>2, <3>4, SubSeqProperties
        <4>2. /\ Len(pending'[q]) = Len(p[q]) - n[q]
              /\ \A i \in 1 .. (Len(p[q]) - n[q]) : pending'[q][i] = p[q][i + n[q]]
          BY <1>2, <2>4, <4>1
        <4>3. DOMAIN pending'[q] = 1 .. Len(pending'[q])
          BY <2>4, <4>1, LenProperties
        <4>. QED BY <4>2, <4>3
      <3>. QED BY <1>2, <3>3, <3>4
    <2>8. \A i \in 1 .. n[q] : SubSeq(p[q], 1, n[q])[i] = p[q][i]
      <3>1. \A i \in 1 .. n[q] : p[q][i] \in Requests
        BY <1>2, <2>6
      <3>2. \A i \in 1 .. n[q] - 1 + 1 : SubSeq(p[q], 1, n[q])[i] = p[q][1 + i - 1]
        BY <1>2, <3>1, SubSeqProperties
      <3>. QED BY <1>2, <3>2
    <2>9. \A a \in new[q] : waiting'[q][a] = p[q][a - first[q] + 1]
      <3>1. \A a \in new[q] : a - first[q] + 1 \in 1 .. n[q]
        BY <1>2, <1>3, <2>2
      <3>. QED BY <2>5, <2>8, <3>1
    <2>10. \A a \in DOMAIN w[q] : a < first[q] /\ a \notin new[q]
      BY <1>2, <1>3, <2>2, <2>3
    <2>11. \A a \in DOMAIN w[q] : a < first[q] /\ waiting'[q][a] = w[q][a]
      BY <2>5, <2>10
    <2>12. DOMAIN waiting'[q] = DOMAIN w[q] \cup new[q]
      BY <2>5
    <2>. QED BY <1>2, <1>3, <2>1, <2>2, <2>7, <2>9, <2>11, <2>12 DEF Takes
  <1>5. ASSUME o = Answers(w) PROVE owed' = Answers(waiting')
    <2>1. ASSUME NEW q \in QueueNames
          PROVE  /\ DOMAIN waiting'[q] = DOMAIN w[q] \cup new[q]
                 /\ \A id \in new[q] : waiting'[q][id] = request(q, id)
                 /\ \A id \in DOMAIN w[q] : waiting'[q][id] = w[q][id]
      <3>1. \A id \in DOMAIN w[q] : waiting'[q][id] = w[q][id]
        BY <1>4 DEF Takes
      <3> HIDE DEF n, first, new, request
      <3>. QED BY <1>1, <3>1
    <2> HIDE DEF n, first, new, request
    <2>2. ASSUME NEW x PROVE x \in owed' <=> x \in Answers(waiting')
      <3>1. x \in owed' <=>
              \/ \E q \in QueueNames : \E id \in DOMAIN w[q] :
                    x = [Seq |-> id, Command |-> CommandOf[w[q][id]]]
              \/ \E q \in QueueNames : \E id \in new[q] :
                    x = [Seq |-> id, Command |-> CommandOf[request(q, id)]]
        BY <1>1, <1>5, AnswersMember
      <3>2. x \in Answers(waiting') <=>
              \E q \in QueueNames : \E id \in DOMAIN waiting'[q] :
                  x = [Seq |-> id, Command |-> CommandOf[waiting'[q][id]]]
        BY AnswersMember
      <3>. QED BY <2>1, <3>1, <3>2
    <2>. QED BY <2>2
  <1>6. ASSUME NEW q \in QueueNames
        PROVE  \E k, f \in Nat : /\ Takes(p[q], w[q], pending'[q], waiting'[q], k, f)
                                 /\ f + k <= nextId'
                                 /\ k > 0 => q \in Processed(p, w)
    <2> HIDE DEF n, first, new, request
    <2>. QED BY <1>2, <1>3, <1>4
  <1>. QED BY <1>5, <1>6

\* Taking requests off a tidy queue leaves it tidy, and none of them gets lost.
LEMMA TakesKeepsTidy ==
  ASSUME NEW l, NEW m, NEW l2, NEW m2, NEW n, NEW f, NEW q,
         DOMAIN l = 1 .. Len(l), Len(l) \in Nat, DOMAIN m \subseteq Nat,
         TidyQueue(l, m, q), Takes(l, m, l2, m2, n, f)
  PROVE  /\ TidyQueue(l2, m2, q)
         /\ \A r : Listed(l2, r) => Listed(l, r)
         /\ \A r : Held(m, r) => Held(m2, r)
         /\ \A r : Held(m2, r) => Held(m, r) \/ Listed(l, r)
         /\ \A r : Listed(l, r) => Listed(l2, r) \/ Held(m2, r)
  <1>1. n \in Nat /\ f \in Nat /\ n <= Len(l)
    BY DEF Takes
  <1>2. \A i \in DOMAIN l2 : i \in Nat /\ i + n \in DOMAIN l /\ i + n > n /\ l2[i] = l[i + n]
    BY <1>1 DEF Takes
  <1>3. \A a \in DOMAIN m2 : \/ a \in DOMAIN m /\ a < f /\ m2[a] = m[a]
                             \/ /\ a \in Nat /\ a >= f /\ a - f + 1 \in DOMAIN l
                                /\ a - f + 1 <= n /\ m2[a] = l[a - f + 1]
    BY <1>1 DEF Takes
  <1>4. \A i \in DOMAIN l : \/ i - n \in DOMAIN l2 /\ l2[i - n] = l[i]
                            \/ f + i - 1 \in DOMAIN m2 /\ m2[f + i - 1] = l[i]
    <2> SUFFICES ASSUME NEW i \in DOMAIN l
                 PROVE  \/ i - n \in DOMAIN l2 /\ l2[i - n] = l[i]
                        \/ f + i - 1 \in DOMAIN m2 /\ m2[f + i - 1] = l[i]
      OBVIOUS
    <2>1. CASE i > n
      BY <1>1, <2>1 DEF Takes
    <2>2. CASE i <= n
      <3>1. f + i - 1 \in f .. (f + n - 1) /\ (f + i - 1) - f + 1 = i
        BY <1>1, <2>2
      <3>. QED BY <3>1 DEF Takes
    <2>. QED BY <1>1, <2>1, <2>2
  <1>5. \A a \in DOMAIN m : a \in DOMAIN m2 /\ m2[a] = m[a]
    BY DEF Takes
  <1>6. TidyQueue(l2, m2, q)
    <2>1. \A i \in DOMAIN l2 : QueueOf(CommandOf[l2[i]]) = q
      BY <1>2 DEF TidyQueue
    <2>2. \A i, j \in DOMAIN l2 : l2[i] = l2[j] => i = j
      <3> SUFFICES ASSUME NEW i \in DOMAIN l2, NEW j \in DOMAIN l2, l2[i] = l2[j]
                   PROVE  i = j
        OBVIOUS
      <3>1. i + n = j + n /\ i \in Nat /\ j \in Nat
        BY <1>2 DEF TidyQueue
      <3>. QED BY <1>1, <3>1
    <2>3. \A a \in DOMAIN m2 : QueueOf(CommandOf[m2[a]]) = q
      BY <1>3 DEF TidyQueue
    <2>4. \A a, b \in DOMAIN m2 : m2[a] = m2[b] => a = b
      <3> SUFFICES ASSUME NEW a \in DOMAIN m2, NEW b \in DOMAIN m2, m2[a] = m2[b]
                   PROVE  a = b
        OBVIOUS
      <3>1. CASE a < f /\ b < f
        BY <1>1, <1>3, <3>1 DEF TidyQueue
      <3>2. CASE a >= f /\ b >= f
        <4>1. a \in Nat /\ b \in Nat
          BY <1>3
        <4>2. /\ a - f + 1 \in DOMAIN l /\ m2[a] = l[a - f + 1]
              /\ b - f + 1 \in DOMAIN l /\ m2[b] = l[b - f + 1]
          BY <1>1, <1>3, <3>2
        <4>3. a - f + 1 = b - f + 1
          BY <4>2 DEF TidyQueue
        <4>. QED BY <1>1, <4>1, <4>3
      <3>3. CASE ~(a < f <=> b < f)
        BY <1>1, <1>3, <3>3 DEF TidyQueue
      <3>. QED BY <1>1, <1>3, <3>1, <3>2, <3>3
    <2>5. \A i \in DOMAIN l2, a \in DOMAIN m2 : l2[i] # m2[a]
      <3> SUFFICES ASSUME NEW i \in DOMAIN l2, NEW a \in DOMAIN m2, l2[i] = m2[a]
                   PROVE  FALSE
        OBVIOUS
      <3>1. CASE a \in DOMAIN m /\ m2[a] = m[a]
        BY <1>2, <3>1 DEF TidyQueue
      <3>2. CASE a - f + 1 \in DOMAIN l /\ a - f + 1 <= n /\ m2[a] = l[a - f + 1]
        <4>1. a - f + 1 = i + n /\ i + n > n
          BY <1>2, <3>2 DEF TidyQueue
        <4>. QED BY <1>1, <1>2, <3>2, <4>1
      <3>. QED BY <1>3, <3>1, <3>2
    <2>. QED BY <2>1, <2>2, <2>3, <2>4, <2>5 DEF TidyQueue
  <1>. QED BY <1>2, <1>3, <1>4, <1>5, <1>6 DEF Listed, Held

\* What a drain leaves of a tidy collection: no request is lost, and the server
\* owes an answer for each one that waits.
LEMMA DrainKeepsTidy ==
  ASSUME NEW p \in [QueueNames -> Seq(Requests)],
         NEW w, WaitingOK(w, nextId), Bounded(w), nextId \in Nat \ {0},
         Tidy(p, w), Drain(p, w, Answers(w))
  PROVE  /\ Tidy(pending', waiting')
         /\ owed' = Answers(waiting')
         /\ \A q \in QueueNames : \A r :
               /\ Listed(pending'[q], r) => Listed(p[q], r)
               /\ Held(w[q], r) => Held(waiting'[q], r)
               /\ Held(waiting'[q], r) => Held(w[q], r) \/ Listed(p[q], r)
               /\ Listed(p[q], r) => Listed(pending'[q], r) \/ Held(waiting'[q], r)
  <1>1. owed' = Answers(waiting')
    BY DrainTakes
  <1>2. ASSUME NEW q \in QueueNames
        PROVE  /\ TidyQueue(pending'[q], waiting'[q], q)
               /\ \A r : Listed(pending'[q], r) => Listed(p[q], r)
               /\ \A r : Held(w[q], r) => Held(waiting'[q], r)
               /\ \A r : Held(waiting'[q], r) => Held(w[q], r) \/ Listed(p[q], r)
               /\ \A r : Listed(p[q], r) => Listed(pending'[q], r) \/ Held(waiting'[q], r)
    <2>1. PICK n, f \in Nat : Takes(p[q], w[q], pending'[q], waiting'[q], n, f)
      BY DrainTakes
    <2>2. Len(p[q]) \in Nat /\ DOMAIN p[q] = 1 .. Len(p[q])
      BY LenProperties
    <2>3. DOMAIN w[q] \subseteq Nat
      BY DEF WaitingOK
    <2>4. TidyQueue(p[q], w[q], q)
      BY DEF Tidy
    <2>. QED BY <2>1, <2>2, <2>3, <2>4, TakesKeepsTidy
  <1>. QED BY <1>1, <1>2 DEF Tidy

\* A request that is nowhere yet is listed once by enqueue, and nothing else is.
LEMMA EnqueueTidy ==
  ASSUME NEW p \in [QueueNames -> Seq(Requests)], NEW w, NEW r \in Requests, Tidy(p, w),
         ~Listed(p[QueueOf(CommandOf[r])], r), ~Held(w[QueueOf(CommandOf[r])], r)
  PROVE  /\ Tidy(Enqueue(p, r), w)
         /\ \A q \in QueueNames : \A x : Listed(Enqueue(p, r)[q], x) <=>
               Listed(p[q], x) \/ (x = r /\ q = QueueOf(CommandOf[r]))
  <1> DEFINE k == QueueOf(CommandOf[r])
             l == p[k]
             l2 == Append(p[k], r)
  <1>1. k \in QueueNames /\ l \in Seq(Requests)
    BY QueueOfType
  <1>2. /\ Len(l) \in Nat /\ DOMAIN l = 1 .. Len(l) /\ DOMAIN l2 = 1 .. (Len(l) + 1)
        /\ \A i \in 1 .. Len(l) : l2[i] = l[i]
        /\ l2[Len(l) + 1] = r
    <2> HIDE DEF k
    <2>. QED BY <1>1, AppendProperties, LenProperties
  <1>3. \A q \in QueueNames : Enqueue(p, r)[q] = IF q = k THEN l2 ELSE p[q]
    BY DEF Enqueue
  <1>4. TidyQueue(l, w[k], k) /\ ~Listed(l, r) /\ ~Held(w[k], r)
    BY <1>1 DEF Tidy
  <1>5. QueueOf(CommandOf[r]) = k
    OBVIOUS
  <1> HIDE DEF k, l, l2
  <1>6. \A x : Listed(l2, x) <=> Listed(l, x) \/ x = r
    BY <1>2 DEF Listed
  <1>7. TidyQueue(l2, w[k], k)
    <2>1. \A i \in DOMAIN l2 : \/ i \in DOMAIN l /\ l2[i] = l[i]
                               \/ i = Len(l) + 1 /\ i \notin DOMAIN l /\ l2[i] = r
      BY <1>2
    <2>2. \A i \in DOMAIN l : l[i] # r
      BY <1>4 DEF Listed
    <2>3. \A a \in DOMAIN w[k] : w[k][a] # r
      BY <1>4 DEF Held
    <2>. QED BY <1>4, <1>5, <2>1, <2>2, <2>3 DEF TidyQueue
  <1>8. Tidy(Enqueue(p, r), w)
    BY <1>3, <1>7 DEF Tidy, k
  <1>. QED BY <1>3, <1>5, <1>6, <1>8 DEF k, l

\* Taking one element out of a list.
LEMMA RemoveAtProperties ==
  ASSUME NEW S, NEW s \in Seq(S), NEW i \in 1 .. Len(s)
  PROVE  /\ DOMAIN RemoveAt(s, i) = 1 .. (Len(s) - 1)
         /\ \A j \in 1 .. (Len(s) - 1) : RemoveAt(s, i)[j] = IF j < i THEN s[j] ELSE s[j + 1]
  <1> DEFINE a == SubSeq(s, 1, i - 1)
             b == SubSeq(s, i + 1, Len(s))
  <1>1. Len(s) \in Nat /\ DOMAIN s = 1 .. Len(s) /\ \A j \in 1 .. Len(s) : s[j] \in S
    BY LenProperties, ElementOfSeq
  <1>2. /\ a \in Seq(S) /\ Len(a) = i - 1
        /\ \A j \in 1 .. (i - 1) : a[j] = s[j]
    <2>1. /\ 1 \in Int /\ i - 1 \in Int
          /\ \A j \in 1 .. (i - 1) : s[j] \in S
      BY <1>1
    <2>2. /\ a \in Seq(S)
          /\ Len(a) = IF 1 <= i - 1 THEN (i - 1) - 1 + 1 ELSE 0
          /\ \A j \in 1 .. ((i - 1) - 1 + 1) : a[j] = s[1 + j - 1]
      BY <2>1, SubSeqProperties
    <2>. QED BY <1>1, <2>2
  <1>3. /\ b \in Seq(S) /\ Len(b) = Len(s) - i
        /\ \A j \in 1 .. (Len(s) - i) : b[j] = s[i + j]
    <2>1. /\ i + 1 \in Int /\ Len(s) \in Int
          /\ \A j \in (i + 1) .. Len(s) : s[j] \in S
      BY <1>1
    <2>2. /\ b \in Seq(S)
          /\ Len(b) = IF i + 1 <= Len(s) THEN Len(s) - (i + 1) + 1 ELSE 0
          /\ \A j \in 1 .. (Len(s) - (i + 1) + 1) : b[j] = s[(i + 1) + j - 1]
      BY <2>1, SubSeqProperties
    <2> HIDE DEF b
    <2>3. Len(b) = Len(s) - i
      <3>1. Len(s) \in Nat /\ i \in 1 .. Len(s)
        BY <1>1
      <3>2. Len(b) = IF i + 1 <= Len(s) THEN Len(s) - (i + 1) + 1 ELSE 0
        BY <2>2
      <3>. QED BY <3>1, <3>2
    <2>4. ASSUME NEW j \in 1 .. (Len(s) - i) PROVE b[j] = s[i + j]
      <3>1. j \in 1 .. (Len(s) - (i + 1) + 1) /\ (i + 1) + j - 1 = i + j
        BY <1>1
      <3>. QED BY <2>2, <3>1
    <2>. QED BY <2>2, <2>3, <2>4
  <1>4. RemoveAt(s, i) = a \o b
    BY DEF RemoveAt
  <1> HIDE DEF a, b
  <1>5. /\ a \o b \in Seq(S) /\ Len(a \o b) = Len(a) + Len(b)
        /\ \A j \in 1 .. (Len(a) + Len(b)) :
              (a \o b)[j] = IF j <= Len(a) THEN a[j] ELSE b[j - Len(a)]
    BY <1>2, <1>3, ConcatProperties
  <1>6. DOMAIN (a \o b) = 1 .. (Len(s) - 1)
    <2>1. DOMAIN (a \o b) = 1 .. Len(a \o b)
      BY <1>5, LenProperties
    <2>2. Len(a \o b) = Len(s) - 1
      BY <1>1, <1>2, <1>3, <1>5
    <2>. QED BY <2>1, <2>2
  <1>7. ASSUME NEW j \in 1 .. (Len(s) - 1)
        PROVE  (a \o b)[j] = IF j < i THEN s[j] ELSE s[j + 1]
    <2>1. j \in 1 .. (Len(a) + Len(b))
      BY <1>1, <1>2, <1>3
    <2>2. CASE j < i
      BY <1>1, <1>2, <1>5, <2>1, <2>2
    <2>3. CASE j >= i
      <3>1. (a \o b)[j] = b[j - (i - 1)] /\ j - (i - 1) \in 1 .. (Len(s) - i)
        BY <1>1, <1>2, <1>5, <2>1, <2>3
      <3>2. i + (j - (i - 1)) = j + 1
        BY <1>1
      <3>3. b[j - (i - 1)] = s[i + (j - (i - 1))]
        BY <1>3, <3>1
      <3>. QED BY <1>1, <2>3, <3>1, <3>2, <3>3
    <2>4. j < i \/ j >= i
      BY <1>1
    <2>. QED BY <2>2, <2>3, <2>4
  <1>. QED BY <1>4, <1>6, <1>7

\* cancelRequest takes off the request and no other.
LEMMA CancelRequestTidy ==
  ASSUME NEW p \in [QueueNames -> Seq(Requests)], NEW w, NEW r \in Requests, Tidy(p, w)
  PROVE  /\ Tidy(CancelRequest(p, r), w)
         /\ \A q \in QueueNames : \A x :
               /\ Listed(CancelRequest(p, r)[q], x) => Listed(p[q], x)
               /\ Listed(p[q], x) /\ x # r => Listed(CancelRequest(p, r)[q], x)
  <1> DEFINE k == QueueOf(CommandOf[r])
             l == p[k]
             i == CHOOSE j \in DOMAIN l : l[j] = r
             l2 == RemoveAt(l, i)
  <1>1. k \in QueueNames /\ l \in Seq(Requests) /\ TidyQueue(l, w[k], k)
    BY QueueOfType DEF Tidy
  <1>2. Len(l) \in Nat /\ DOMAIN l = 1 .. Len(l)
    BY <1>1, LenProperties
  <1>3. CASE ~ \E j \in DOMAIN l : l[j] = r
    <2>1. CancelRequest(p, r) = p
      BY <1>3 DEF CancelRequest
    <2>. QED BY <2>1
  <1>4. CASE \E j \in DOMAIN l : l[j] = r
    <2>1. i \in DOMAIN l /\ l[i] = r
      BY <1>4
    <2>2. CancelRequest(p, r) = [p EXCEPT ![k] = l2]
      BY <1>1, <1>4 DEF CancelRequest
    <2> HIDE DEF k, l, i
    <2>3. /\ DOMAIN l2 = 1 .. (Len(l) - 1)
          /\ \A j \in 1 .. (Len(l) - 1) : l2[j] = IF j < i THEN l[j] ELSE l[j + 1]
      BY <1>1, <1>2, <2>1, RemoveAtProperties
    <2> HIDE DEF l2
    <2>4. /\ \A j \in DOMAIN l2 : \/ j < i /\ j \in DOMAIN l /\ l2[j] = l[j]
                                  \/ j >= i /\ j + 1 \in DOMAIN l /\ l2[j] = l[j + 1]
          /\ \A j \in DOMAIN l : \/ j < i /\ j \in DOMAIN l2 /\ l2[j] = l[j]
                                 \/ j > i /\ j - 1 \in DOMAIN l2 /\ l2[j - 1] = l[j]
                                 \/ j = i
      <3>1. i \in Nat /\ i >= 1 /\ i <= Len(l)
        BY <1>2, <2>1
      <3>2. ASSUME NEW j \in DOMAIN l2
            PROVE  \/ j < i /\ j \in DOMAIN l /\ l2[j] = l[j]
                   \/ j >= i /\ j + 1 \in DOMAIN l /\ l2[j] = l[j + 1]
        BY <1>2, <2>3, <3>1
      <3>3. ASSUME NEW j \in DOMAIN l
            PROVE  \/ j < i /\ j \in DOMAIN l2 /\ l2[j] = l[j]
                   \/ j > i /\ j - 1 \in DOMAIN l2 /\ l2[j - 1] = l[j]
                   \/ j = i
        <4>1. CASE j < i
          BY <1>2, <2>3, <3>1, <4>1
        <4>2. CASE j > i
          <5>1. j - 1 \in 1 .. (Len(l) - 1) /\ ~(j - 1 < i) /\ (j - 1) + 1 = j
            BY <1>2, <3>1, <4>2
          <5>. QED BY <2>3, <4>2, <5>1
        <4>. QED BY <1>2, <3>1, <4>1, <4>2
      <3>. QED BY <3>2, <3>3
    <2>5. /\ \A x : Listed(l2, x) => Listed(l, x)
          /\ \A x : Listed(l, x) /\ x # r => Listed(l2, x)
      BY <2>1, <2>4 DEF Listed
    <2>6. TidyQueue(l2, w[k], k)
      <3>1. \A j1, j2 \in DOMAIN l2 : l2[j1] = l2[j2] => j1 = j2
        <4> SUFFICES ASSUME NEW j1 \in DOMAIN l2, NEW j2 \in DOMAIN l2, l2[j1] = l2[j2]
                     PROVE  j1 = j2
          OBVIOUS
        <4>1. j1 \in Nat /\ j2 \in Nat /\ i \in Nat
          BY <1>2, <2>1, <2>3
        <4>2. \A a, b \in DOMAIN l : l[a] = l[b] => a = b
          BY <1>1 DEF TidyQueue
        <4>3. CASE j1 < i /\ j2 < i
          BY <2>4, <4>1, <4>2, <4>3
        <4>4. CASE j1 >= i /\ j2 >= i
          BY <2>4, <4>1, <4>2, <4>4
        <4>5. CASE j1 < i /\ j2 >= i
          BY <2>4, <4>1, <4>2, <4>5
        <4>6. CASE j1 >= i /\ j2 < i
          BY <2>4, <4>1, <4>2, <4>6
        <4>. QED BY <4>1, <4>3, <4>4, <4>5, <4>6
      <3>2. /\ \A j \in DOMAIN l2 : QueueOf(CommandOf[l2[j]]) = k
            /\ \A j \in DOMAIN l2, a \in DOMAIN w[k] : l2[j] # w[k][a]
        BY <1>1, <2>4 DEF TidyQueue
      <3>. QED BY <1>1, <3>1, <3>2 DEF TidyQueue
    <2>7. \A q \in QueueNames : CancelRequest(p, r)[q] = IF q = k THEN l2 ELSE p[q]
      BY <2>2
    <2>8. Tidy(CancelRequest(p, r), w)
      BY <2>6, <2>7 DEF Tidy
    <2>. QED BY <2>5, <2>7, <2>8 DEF l
  <1>. QED BY <1>3, <1>4

\* An answered request gives up its id: nobody else has it.
LEMMA DequeueTidy ==
  ASSUME NEW p, NEW w, DOMAIN w = QueueNames, Tidy(p, w), NEW q \in QueueNames,
         NEW id \in DOMAIN w[q]
  PROVE  /\ Tidy(p, Dequeue(w, q, id))
         /\ \A k \in QueueNames : \A x :
               Held(Dequeue(w, q, id)[k], x) <=> Held(w[k], x) /\ ~(k = q /\ x = w[q][id])
         /\ Answers(Dequeue(w, q, id)) =
               Answers(w) \ {[Seq |-> id, Command |-> CommandOf[w[q][id]]]}
  <1> DEFINE d == Dequeue(w, q, id)
  <1>1. \A k \in QueueNames :
           d[k] = IF k = q THEN [j \in DOMAIN w[q] \ {id} |-> w[q][j]] ELSE w[k]
    BY DEF Dequeue
  <1>2. \A k \in QueueNames : /\ DOMAIN d[k] = IF k = q THEN DOMAIN w[k] \ {id} ELSE DOMAIN w[k]
                              /\ \A j \in DOMAIN d[k] : d[k][j] = w[k][j]
    BY ZenonT(40), <1>1
  <1> HIDE DEF d
  <1>3. \A k \in QueueNames : TidyQueue(p[k], w[k], k)
    BY DEF Tidy
  <1>4. ASSUME NEW k \in QueueNames PROVE TidyQueue(p[k], d[k], k)
    <2>1. DOMAIN d[k] \subseteq DOMAIN w[k] /\ \A j \in DOMAIN d[k] : d[k][j] = w[k][j]
      BY <1>2
    <2>2. TidyQueue(p[k], w[k], k)
      BY <1>3
    <2>. QED BY <2>1, <2>2 DEF TidyQueue
  <1>5. \A k \in QueueNames : \A x : Held(d[k], x) <=> Held(w[k], x) /\ ~(k = q /\ x = w[q][id])
    <2> SUFFICES ASSUME NEW k \in QueueNames, NEW x
                 PROVE  Held(d[k], x) <=> Held(w[k], x) /\ ~(k = q /\ x = w[q][id])
      OBVIOUS
    <2>1. \A a, b \in DOMAIN w[k] : w[k][a] = w[k][b] => a = b
      BY <1>3 DEF TidyQueue
    <2>. QED BY <1>2, <2>1 DEF Held
  <1>6. ASSUME NEW x
        PROVE  x \in Answers(d) <=>
                 x \in Answers(w) \ {[Seq |-> id, Command |-> CommandOf[w[q][id]]]}
    <2> DEFINE packet == [Seq |-> id, Command |-> CommandOf[w[q][id]]]
    <2>1. x \in Answers(d) <=> \E k \in QueueNames : \E j \in DOMAIN d[k] :
             x = [Seq |-> j, Command |-> CommandOf[w[k][j]]]
      <3>1. x \in Answers(d) <=> \E k \in QueueNames : \E j \in DOMAIN d[k] :
               x = [Seq |-> j, Command |-> CommandOf[d[k][j]]]
        BY AnswersMember
      <3>2. \A k \in QueueNames : \A j \in DOMAIN d[k] : d[k][j] = w[k][j]
        BY <1>2
      <3>. QED BY <3>1, <3>2
    <2>2. x \in Answers(w) <=> \E k \in QueueNames : \E j \in DOMAIN w[k] :
             x = [Seq |-> j, Command |-> CommandOf[w[k][j]]]
      BY AnswersMember
    <2>3. ASSUME NEW k \in QueueNames, NEW j \in DOMAIN w[k],
                 [Seq |-> j, Command |-> CommandOf[w[k][j]]] = packet
          PROVE  k = q /\ j = id
      <3>1. j = id /\ CommandOf[w[k][j]] = CommandOf[w[q][id]]
        BY <2>3
      <3>2. QueueOf(CommandOf[w[k][j]]) = k /\ QueueOf(CommandOf[w[q][id]]) = q
        BY <1>3 DEF TidyQueue
      <3>. QED BY <3>1, <3>2
    <2> HIDE DEF packet
    <2>4. x \in Answers(d) <=> x \in Answers(w) /\ x # packet
      <3>1. ASSUME x \in Answers(d) PROVE x \in Answers(w) /\ x # packet
        <4>. PICK k \in QueueNames : \E j \in DOMAIN d[k] :
                x = [Seq |-> j, Command |-> CommandOf[w[k][j]]]
          BY <2>1, <3>1
        <4>1. PICK j \in DOMAIN d[k] : x = [Seq |-> j, Command |-> CommandOf[w[k][j]]]
          OBVIOUS
        <4>2. j \in DOMAIN w[k] /\ ~(k = q /\ j = id)
          BY <1>2
        <4>. QED BY <2>2, <2>3, <4>1, <4>2
      <3>2. ASSUME x \in Answers(w), x # packet PROVE x \in Answers(d)
        <4>. PICK k \in QueueNames : \E j \in DOMAIN w[k] :
                x = [Seq |-> j, Command |-> CommandOf[w[k][j]]]
          BY <2>2, <3>2
        <4>1. PICK j \in DOMAIN w[k] : x = [Seq |-> j, Command |-> CommandOf[w[k][j]]]
          OBVIOUS
        <4>2. j \in DOMAIN d[k]
          BY <1>2, <3>2, <4>1 DEF packet
        <4>. QED BY <2>1, <4>1, <4>2
      <3>. QED BY <3>1, <3>2
    <2>. QED BY <2>4 DEF packet
  <1>7. Answers(d) = Answers(w) \ {[Seq |-> id, Command |-> CommandOf[w[q][id]]]}
    BY <1>6
  <1>8. Tidy(p, d)
    BY <1>4 DEF Tidy
  <1>. QED BY <1>5, <1>7, <1>8 DEF d

\* The inductive invariant of NoRequestLost.
Placed == IInv /\ Tidy(pending, waiting) /\ NoRequestLost

\* The two halves of NoRequestLost, in the words of this module.
LEMMA LostParts ==
  /\ InOnePlace <=> \A r \in Requests :
        LET q == QueueOf(CommandOf[r]) IN
        /\ promise[r] = "open" => Listed(pending[q], r) \/ Held(waiting[q], r) \/ r \in cancelled
        /\ ~(Listed(pending[q], r) /\ Held(waiting[q], r))
        /\ promise[r] # "open" => ~Listed(pending[q], r) /\ ~Held(waiting[q], r)
  /\ EveryAnswerAwaited <=> owed = Answers(waiting)
  BY DEF InOnePlace, EveryAnswerAwaited, Listed, Held, IsPending, IsWaiting, Answers

\* In a tidy collection no request is pending and waiting.
LEMMA TidyIsDisjoint ==
  ASSUME NEW p, NEW w, Tidy(p, w), NEW q \in QueueNames, NEW r
  PROVE  ~(Listed(p[q], r) /\ Held(w[q], r))
  BY DEF Tidy, TidyQueue, Listed, Held

\* No request has a place at first, and none has a promise.
LEMMA InitPlaced == Init => Placed
  <1> SUFFICES ASSUME Init
               PROVE  Placed
    OBVIOUS
  <1>1. DOMAIN (<<>>) = {}
    BY EmptySeq
  <1>2. \A q \in QueueNames : DOMAIN waiting[q] = {} /\ DOMAIN pending[q] = {}
    BY <1>1 DEF Init
  <1>3. Tidy(pending, waiting)
    BY <1>2 DEF Tidy, TidyQueue
  <1>4. owed = Answers(waiting)
    BY <1>2 DEF Init, Answers
  <1>5. InOnePlace
    <2>1. \A q \in QueueNames : \A r : ~Listed(pending[q], r) /\ ~Held(waiting[q], r)
      BY <1>2 DEF Listed, Held
    <2>2. \A r \in Requests : promise[r] = "none"
      BY DEF Init
    <2>. QED BY <2>1, <2>2, QueueOfType, LostParts
  <1>. QED BY <1>3, <1>4, <1>5, InitIInv, LostParts DEF Placed, NoRequestLost

\* What the proofs below take from the invariant.
LEMMA PlacedParts ==
  ASSUME Placed
  PROVE  /\ pending \in [QueueNames -> Seq(Requests)]
         /\ WaitingOK(waiting, nextId) /\ nextId \in Nat \ {0}
         /\ Bounded(waiting) /\ DOMAIN waiting = QueueNames
         /\ promise \in [Requests -> {"none", "open", "resolved", "rejected"}]
         /\ Tidy(pending, waiting) /\ owed = Answers(waiting)
         /\ \A r \in Requests :
               LET q == QueueOf(CommandOf[r]) IN
               /\ promise[r] = "open" => Listed(pending[q], r) \/ Held(waiting[q], r) \/ r \in cancelled
               /\ ~(Listed(pending[q], r) /\ Held(waiting[q], r))
               /\ promise[r] # "open" => ~Listed(pending[q], r) /\ ~Held(waiting[q], r)
  <1>1. /\ pending \in [QueueNames -> Seq(Requests)]
        /\ WaitingOK(waiting, nextId) /\ nextId \in Nat \ {0}
        /\ Bounded(waiting) /\ DOMAIN waiting = QueueNames
        /\ promise \in [Requests -> {"none", "open", "resolved", "rejected"}]
    BY TypeOKParts DEF Placed, IInv, TypeOK, CapacityRespected, Bounded
  <1>2. Tidy(pending, waiting) /\ owed = Answers(waiting)
    BY LostParts DEF Placed, NoRequestLost
  <1>3. InOnePlace
    BY DEF Placed, NoRequestLost
  <1>. QED BY <1>1, <1>2, <1>3, LostParts

\* A new request is listed, and sent at once if there is room.
LEMMA MakeRequestEffect ==
  ASSUME Placed, NEW r \in Requests, MakeRequest(r)
  PROVE  LET k == QueueOf(CommandOf[r]) IN
         /\ promise[r] = "none" /\ promise' = [promise EXCEPT ![r] = "open"] /\ cancelled' = cancelled
         /\ Tidy(pending', waiting') /\ owed' = Answers(waiting')
         /\ \A q \in QueueNames : \A x :
               /\ Listed(pending'[q], x) => Listed(pending[q], x) \/ (x = r /\ q = k)
               /\ Held(waiting[q], x) => Held(waiting'[q], x)
               /\ Held(waiting'[q], x) => Held(waiting[q], x) \/ Listed(pending[q], x) \/ (x = r /\ q = k)
               /\ Listed(pending[q], x) \/ (x = r /\ q = k) => Listed(pending'[q], x) \/ Held(waiting'[q], x)
  <1> DEFINE p == Enqueue(pending, r)
             k == QueueOf(CommandOf[r])
  <1>1. /\ pending \in [QueueNames -> Seq(Requests)]
        /\ WaitingOK(waiting, nextId) /\ nextId \in Nat \ {0} /\ Bounded(waiting)
        /\ Tidy(pending, waiting) /\ owed = Answers(waiting)
    BY PlacedParts
  <1>2. /\ p \in [QueueNames -> Seq(Requests)] /\ k \in QueueNames
        /\ Drain(p, waiting, Answers(waiting))
        /\ promise[r] = "none" /\ promise' = [promise EXCEPT ![r] = "open"]
        /\ cancelled' = cancelled
    BY <1>1, EnqueueType, QueueOfType DEF MakeRequest
  <1>3. ~Listed(pending[k], r) /\ ~Held(waiting[k], r)
    BY <1>2, PlacedParts
  <1>4. /\ Tidy(p, waiting)
        /\ \A q \in QueueNames : \A x : Listed(p[q], x) <=> Listed(pending[q], x) \/ (x = r /\ q = k)
    BY <1>1, <1>3, EnqueueTidy
  <1> HIDE DEF p
  <1>5. /\ Tidy(pending', waiting') /\ owed' = Answers(waiting')
        /\ \A q \in QueueNames : \A x :
              /\ Listed(pending'[q], x) => Listed(p[q], x)
              /\ Held(waiting[q], x) => Held(waiting'[q], x)
              /\ Held(waiting'[q], x) => Held(waiting[q], x) \/ Listed(p[q], x)
              /\ Listed(p[q], x) => Listed(pending'[q], x) \/ Held(waiting'[q], x)
    BY <1>1, <1>2, <1>4, DrainKeepsTidy
  <1>. QED BY <1>2, <1>4, <1>5

\* A cancelled request is not listed any more; one that waits is left alone.
LEMMA CancelEffect ==
  ASSUME Placed, NEW r \in Requests, Cancel(r)
  PROVE  /\ cancelled' = cancelled \cup {r} /\ UNCHANGED <<waiting, owed, promise>>
         /\ Tidy(pending', waiting') /\ owed' = Answers(waiting')
         /\ \A q \in QueueNames : \A x :
               /\ Listed(pending'[q], x) => Listed(pending[q], x)
               /\ Listed(pending[q], x) /\ x # r => Listed(pending'[q], x)
  <1>1. /\ pending' = CancelRequest(pending, r) /\ cancelled' = cancelled \cup {r}
        /\ UNCHANGED <<waiting, owed, promise>>
    BY DEF Cancel
  <1>2. pending \in [QueueNames -> Seq(Requests)] /\ Tidy(pending, waiting) /\ owed = Answers(waiting)
    BY PlacedParts
  <1>. QED BY <1>1, <1>2, CancelRequestTidy

\* An answer settles the one request that waits for it, and gives its slot to
\* another; the handler's other branch is never taken.
LEMMA ResponseEffect ==
  ASSUME Placed, NEW packet \in owed, NEW success \in BOOLEAN,
         HandleResponsePacket(packet, success)
  PROVE  \E r \in Requests :
         LET k == QueueOf(CommandOf[r]) IN
         /\ promise' = [promise EXCEPT ![r] = IF success THEN "resolved" ELSE "rejected"]
         /\ cancelled' = cancelled
         /\ Held(waiting[k], r) /\ ~Listed(pending[k], r)
         /\ Tidy(pending', waiting') /\ owed' = Answers(waiting')
         /\ \A q \in QueueNames : \A x :
               /\ Listed(pending'[q], x) => Listed(pending[q], x)
               /\ Held(waiting[q], x) /\ ~(q = k /\ x = r) => Held(waiting'[q], x)
               /\ Held(waiting'[q], x) =>
                     (Held(waiting[q], x) /\ ~(q = k /\ x = r)) \/ Listed(pending[q], x)
               /\ Listed(pending[q], x) => Listed(pending'[q], x) \/ Held(waiting'[q], x)
  <1> DEFINE q == QueueOf(packet.Command)
             id == packet.Seq
             w == Dequeue(waiting, q, id)
  <1>1. /\ pending \in [QueueNames -> Seq(Requests)]
        /\ WaitingOK(waiting, nextId) /\ nextId \in Nat \ {0} /\ Bounded(waiting)
        /\ DOMAIN waiting = QueueNames
        /\ Tidy(pending, waiting) /\ owed = Answers(waiting)
    BY PlacedParts
  <1>. PICK k \in QueueNames : \E a \in DOMAIN waiting[k] :
          packet = [Seq |-> a, Command |-> CommandOf[waiting[k][a]]]
    BY <1>1, AnswersMember
  <1>2. PICK a \in DOMAIN waiting[k] :
           packet = [Seq |-> a, Command |-> CommandOf[waiting[k][a]]]
    OBVIOUS
  <1>3. QueueOf(CommandOf[waiting[k][a]]) = k
    BY <1>1 DEF Tidy, TidyQueue
  <1>4. /\ q \in QueueNames /\ id \in DOMAIN waiting[q]
        /\ packet = [Seq |-> id, Command |-> CommandOf[waiting[q][id]]]
        /\ QueueOf(CommandOf[waiting[q][id]]) = q
    BY <1>2, <1>3
  <1>5. /\ promise' = [promise EXCEPT ![waiting[q][id]] = IF success THEN "resolved" ELSE "rejected"]
        /\ Drain(pending, w, owed \ {packet})
        /\ cancelled' = cancelled
    BY <1>4 DEF HandleResponsePacket
  <1> HIDE DEF q, id
  <1> DEFINE r == waiting[q][id]
  <1>6. /\ Tidy(pending, w)
        /\ \A j \in QueueNames : \A x : Held(w[j], x) <=> Held(waiting[j], x) /\ ~(j = q /\ x = r)
        /\ Answers(w) = owed \ {packet}
    <2>1. /\ DOMAIN waiting = QueueNames /\ Tidy(pending, waiting)
          /\ q \in QueueNames /\ id \in DOMAIN waiting[q]
      BY <1>1, <1>4
    <2>2. Tidy(pending, Dequeue(waiting, q, id))
      BY <2>1, DequeueTidy
    <2>3. \A j \in QueueNames : \A x : Held(Dequeue(waiting, q, id)[j], x) <=>
              Held(waiting[j], x) /\ ~(j = q /\ x = waiting[q][id])
      BY <2>1, DequeueTidy
    <2>4. Answers(Dequeue(waiting, q, id)) =
              Answers(waiting) \ {[Seq |-> id, Command |-> CommandOf[waiting[q][id]]]}
      BY <2>1, DequeueTidy
    <2>5. owed \ {packet} = Answers(waiting) \ {[Seq |-> id, Command |-> CommandOf[waiting[q][id]]]}
      BY <1>1, <1>4
    <2>. QED BY <2>2, <2>3, <2>4, <2>5
  <1>7. WaitingOK(w, nextId) /\ Bounded(w)
    BY <1>1, <1>4, DequeueType
  <1>8. r \in Requests
    BY <1>1, <1>4 DEF WaitingOK
  <1>9. Held(waiting[q], r)
    BY <1>4 DEF Held
  <1>10. QueueOf(CommandOf[r]) = q
    BY <1>4
  <1>11. promise' = [promise EXCEPT ![r] = IF success THEN "resolved" ELSE "rejected"]
    BY <1>5
  <1> HIDE DEF w, r
  <1>12. /\ Tidy(pending', waiting') /\ owed' = Answers(waiting')
         /\ \A j \in QueueNames : \A x :
               /\ Listed(pending'[j], x) => Listed(pending[j], x)
               /\ Held(w[j], x) => Held(waiting'[j], x)
               /\ Held(waiting'[j], x) => Held(w[j], x) \/ Listed(pending[j], x)
               /\ Listed(pending[j], x) => Listed(pending'[j], x) \/ Held(waiting'[j], x)
    <2>1. Drain(pending, w, Answers(w))
      BY <1>5, <1>6
    <2>2. WaitingOK(w, nextId) /\ Bounded(w) /\ Tidy(pending, w)
      BY <1>6, <1>7
    <2>. QED BY <1>1, <2>1, <2>2, DrainKeepsTidy
  <1>13. ~Listed(pending[q], r)
    BY <1>1, <1>4, <1>9, TidyIsDisjoint
  <1>14. \A j \in QueueNames : \A x :
               /\ Held(waiting[j], x) /\ ~(j = q /\ x = r) => Held(waiting'[j], x)
               /\ Held(waiting'[j], x) =>
                     (Held(waiting[j], x) /\ ~(j = q /\ x = r)) \/ Listed(pending[j], x)
    BY <1>6, <1>12
  <1>. QED BY <1>5, <1>8, <1>9, <1>10, <1>11, <1>12, <1>13, <1>14

\* Every step keeps each request in its one place.
LEMMA NextPlaced == Placed /\ [Next]_vars => Placed'
  <1> SUFFICES ASSUME Placed, [Next]_vars
               PROVE  Placed'
    OBVIOUS
  <1>1. /\ promise \in [Requests -> {"none", "open", "resolved", "rejected"}]
        /\ Tidy(pending, waiting) /\ owed = Answers(waiting)
    BY PlacedParts
  <1>2. \A r \in Requests :
           LET q == QueueOf(CommandOf[r]) IN
           /\ promise[r] = "open" => Listed(pending[q], r) \/ Held(waiting[q], r) \/ r \in cancelled
           /\ ~(Listed(pending[q], r) /\ Held(waiting[q], r))
           /\ promise[r] # "open" => ~Listed(pending[q], r) /\ ~Held(waiting[q], r)
    BY PlacedParts
  <1>3. IInv'
    BY NextIInv DEF Placed
  \* What is left to show of a step.
  <1>4. ASSUME Tidy(pending', waiting'), owed' = Answers(waiting'),
               \A r \in Requests :
                  LET q == QueueOf(CommandOf[r]) IN
                  /\ promise'[r] = "open" =>
                        Listed(pending'[q], r) \/ Held(waiting'[q], r) \/ r \in cancelled'
                  /\ promise'[r] # "open" => ~Listed(pending'[q], r) /\ ~Held(waiting'[q], r)
        PROVE  Placed'
    <2>1. (Tidy(pending, waiting))' /\ EveryAnswerAwaited'
      BY <1>4 DEF Tidy, EveryAnswerAwaited, Answers
    <2>2. InOnePlace'
      BY <1>4, TidyIsDisjoint, QueueOfType DEF InOnePlace, Listed, Held, IsPending, IsWaiting
    <2>. QED BY <1>3, <2>1, <2>2 DEF Placed, NoRequestLost
  <1>5. ASSUME NEW r \in Requests, MakeRequest(r)
        PROVE  Placed'
    <2>1. ASSUME NEW x \in Requests
          PROVE  LET q == QueueOf(CommandOf[x]) IN
                 /\ promise'[x] = "open" =>
                       Listed(pending'[q], x) \/ Held(waiting'[q], x) \/ x \in cancelled'
                 /\ promise'[x] # "open" => ~Listed(pending'[q], x) /\ ~Held(waiting'[q], x)
      <3>1. QueueOf(CommandOf[x]) \in QueueNames
        BY QueueOfType
      <3>2. CASE x = r
        BY <1>1, <1>5, <3>1, <3>2, MakeRequestEffect
      <3>3. CASE x # r
        <4>1. promise'[x] = promise[x]
          BY <1>1, <1>5, <3>3, MakeRequestEffect
        <4>. QED BY <1>2, <1>5, <3>1, <3>3, <4>1, MakeRequestEffect
      <3>. QED BY <3>2, <3>3
    <2>. QED BY <1>4, <1>5, <2>1, MakeRequestEffect
  <1>6. ASSUME NEW r \in Requests, Cancel(r)
        PROVE  Placed'
    <2>1. /\ cancelled' = cancelled \cup {r} /\ UNCHANGED <<waiting, promise>>
          /\ Tidy(pending', waiting') /\ owed' = Answers(waiting')
          /\ \A q \in QueueNames : \A x : /\ Listed(pending'[q], x) => Listed(pending[q], x)
                                          /\ Listed(pending[q], x) /\ x # r => Listed(pending'[q], x)
      BY <1>6, CancelEffect
    <2>. QED BY <1>2, <1>4, <2>1, QueueOfType
  <1>7. ASSUME NEW packet \in owed, NEW success \in BOOLEAN,
               HandleResponsePacket(packet, success)
        PROVE  Placed'
    <2>1. PICK r \in Requests :
             LET k == QueueOf(CommandOf[r]) IN
             /\ promise' = [promise EXCEPT ![r] = IF success THEN "resolved" ELSE "rejected"]
             /\ cancelled' = cancelled
             /\ Held(waiting[k], r) /\ ~Listed(pending[k], r)
             /\ Tidy(pending', waiting') /\ owed' = Answers(waiting')
             /\ \A q \in QueueNames : \A x :
                   /\ Listed(pending'[q], x) => Listed(pending[q], x)
                   /\ Held(waiting[q], x) /\ ~(q = k /\ x = r) => Held(waiting'[q], x)
                   /\ Held(waiting'[q], x) =>
                         (Held(waiting[q], x) /\ ~(q = k /\ x = r)) \/ Listed(pending[q], x)
                   /\ Listed(pending[q], x) => Listed(pending'[q], x) \/ Held(waiting'[q], x)
      BY <1>7, ResponseEffect
    <2>2. ASSUME NEW x \in Requests
          PROVE  LET j == QueueOf(CommandOf[x]) IN
                 /\ promise'[x] = "open" =>
                       Listed(pending'[j], x) \/ Held(waiting'[j], x) \/ x \in cancelled'
                 /\ promise'[x] # "open" => ~Listed(pending'[j], x) /\ ~Held(waiting'[j], x)
      <3>1. QueueOf(CommandOf[x]) \in QueueNames
        BY QueueOfType
      <3>2. CASE x = r
        BY <1>1, <2>1, <3>1, <3>2
      <3>3. CASE x # r
        <4>1. promise'[x] = promise[x]
          BY <1>1, <2>1, <3>3
        <4>. QED BY <1>2, <2>1, <3>1, <3>3, <4>1
      <3>. QED BY <3>2, <3>3
    <2>. QED BY <1>4, <2>1, <2>2
  <1>8. CASE UNCHANGED vars
    BY <1>1, <1>2, <1>4, <1>8 DEF vars
  <1>. QED BY <1>5, <1>6, <1>7, <1>8 DEF Next

\* The inductive invariant behind NoRequestLost.
THEOREM SpecPlaced == Spec => []Placed
  BY InitPlaced, NextPlaced, PTL DEF Spec

\* No request is lost between makeRequest, the server and its answer, none is
\* pending and waiting, and none waits for an answer the server does not owe
\* (requestQueue.ts:43-196).
THEOREM NothingLost == Spec => []NoRequestLost
  <1>1. Placed => NoRequestLost
    BY DEF Placed
  <1>. QED BY <1>1, SpecPlaced, PTL

-----------------------------------------------------------------------------
(***************************************************************************)
(* The order in which requests are sent.                                   *)
(***************************************************************************)
\* Where a request is, seen from its own queue.
LEMMA WaitingParts ==
  /\ \A r : IsWaiting(r) <=> Held(waiting[QueueOf(CommandOf[r])], r)
  /\ \A r : IsWaiting(r)' <=> Held(waiting'[QueueOf(CommandOf[r])], r)
  /\ \A r : IsPending(r) <=> Listed(pending[QueueOf(CommandOf[r])], r)
  /\ \A r : IsPending(r)' <=> Listed(pending'[QueueOf(CommandOf[r])], r)
  BY DEF IsWaiting, IsPending, Held, Listed

\* The oldest requests of the list l, r among them, are in the map m2 under
\* consecutive ids.
SentOff(l, m2, r) ==
  \E n, f \in Nat : \E i \in 1 .. n :
      /\ n <= Len(l) /\ l[i] = r
      /\ \A j \in 1 .. n : f + j - 1 \in DOMAIN m2 /\ m2[f + j - 1] = l[j]

\* What a drain of p and w sends is not waiting before.
LEMMA DrainSends ==
  ASSUME NEW p \in [QueueNames -> Seq(Requests)],
         NEW w, WaitingOK(w, nextId), Bounded(w), nextId \in Nat \ {0},
         NEW o, Drain(p, w, o),
         NEW q \in QueueNames, NEW r, ~Held(w[q], r), Held(waiting'[q], r)
  PROVE  q \in Processed(p, w) /\ SentOff(p[q], waiting'[q], r)
  <1>1. PICK n, f \in Nat : /\ Takes(p[q], w[q], pending'[q], waiting'[q], n, f)
                            /\ f + n <= nextId'
                            /\ n > 0 => q \in Processed(p, w)
    BY DrainTakes
  <1>2. PICK a \in DOMAIN waiting'[q] : waiting'[q][a] = r
    BY DEF Held
  <1>3. a \notin DOMAIN w[q]
    BY <1>1, <1>2 DEF Takes, Held
  <1>4. a \in f .. (f + n - 1) /\ p[q][a - f + 1] = r /\ n <= Len(p[q])
    BY <1>1, <1>2, <1>3, LenProperties DEF Takes
  <1>5. a - f + 1 \in 1 .. n /\ n > 0
    BY <1>4
  <1>6. \A j \in 1 .. n : f + j - 1 \in DOMAIN waiting'[q] /\ waiting'[q][f + j - 1] = p[q][j]
    <2> SUFFICES ASSUME NEW j \in 1 .. n
                 PROVE  f + j - 1 \in DOMAIN waiting'[q] /\ waiting'[q][f + j - 1] = p[q][j]
      OBVIOUS
    <2>1. f + j - 1 \in f .. (f + n - 1) /\ (f + j - 1) - f + 1 = j
      OBVIOUS
    <2>. QED BY <1>1, <2>1 DEF Takes
  <1>. QED BY <1>1, <1>4, <1>5, <1>6 DEF SentOff

\* A drain keeps the order of the requests that were pending before, and holds
\* everything back while a priority request is pending or waits.
LEMMA DrainInOrder ==
  ASSUME IInv, IInv',
         NEW p \in [QueueNames -> Seq(Requests)],
         NEW w, WaitingOK(w, nextId), Bounded(w),
         NEW o, Drain(p, w, o),
         \A q \in QueueNames : \A r : Held(w[q], r) => Held(waiting[q], r),
         \A q \in QueueNames : \A i \in DOMAIN pending[q] : i \in DOMAIN p[q] /\ p[q][i] = pending[q][i]
  PROVE  /\ OrderKept /\ PriorityFirst
         /\ (\E r \in Requests : Sent(r) /\ QueueOf(CommandOf[r]) # "Priority") =>
               DOMAIN pending'["Priority"] = {}
  <1>1. /\ nextId \in Nat \ {0} /\ nextId' \in Nat
        /\ pending \in [QueueNames -> Seq(Requests)]
        /\ \A q \in QueueNames : DOMAIN waiting'[q] \subseteq 1 .. (nextId' - 1)
    BY DEF IInv, TypeOK
  <1>2. ASSUME NEW r \in Requests, Sent(r), NEW q, q = QueueOf(CommandOf[r])
        PROVE  q \in QueueNames /\ ~Held(w[q], r) /\ Held(waiting'[q], r)
    BY <1>2, WaitingParts, QueueOfType DEF Sent
  <1>3. OrderKept
    <2> SUFFICES ASSUME NEW r1 \in Requests, NEW r2 \in Requests, Ahead(r1, r2), Sent(r2)
                 PROVE  \E a, b \in 1 .. nextId' : a < b /\ WaitsUnder(r1, a)' /\ WaitsUnder(r2, b)'
      BY DEF OrderKept
    <2> DEFINE q == QueueOf(CommandOf[r1])
    <2>1. q \in QueueNames /\ q = QueueOf(CommandOf[r2]) /\ r1 # r2
      BY QueueOfType DEF Ahead
    <2>2. PICK i \in DOMAIN pending[q] :
             pending[q][i] = r1 /\ \A j \in 1 .. (i - 1) : pending[q][j] # r2
      BY DEF Ahead
    <2> HIDE DEF q
    <2>3. ~Held(w[q], r2) /\ Held(waiting'[q], r2)
      BY <1>2, <2>1
    <2>4. PICK n, f \in Nat : \E k \in 1 .. n :
             /\ n <= Len(p[q]) /\ p[q][k] = r2
             /\ \A j \in 1 .. n : f + j - 1 \in DOMAIN waiting'[q] /\ waiting'[q][f + j - 1] = p[q][j]
      <3>1. SentOff(p[q], waiting'[q], r2)
        BY <1>1, <2>1, <2>3, DrainSends
      <3>. QED BY <3>1 DEF SentOff
    <2>5. PICK k \in 1 .. n :
             /\ n <= Len(p[q]) /\ p[q][k] = r2
             /\ \A j \in 1 .. n : f + j - 1 \in DOMAIN waiting'[q] /\ waiting'[q][f + j - 1] = p[q][j]
      BY <2>4
    <2>6. /\ DOMAIN pending[q] = 1 .. Len(pending[q]) /\ Len(pending[q]) \in Nat
          /\ DOMAIN p[q] = 1 .. Len(p[q]) /\ Len(p[q]) \in Nat
      BY <1>1, <2>1, LenProperties
    <2>7. i < k
      <3>1. p[q][i] = r1 /\ i \in Nat /\ k \in Nat
        BY <2>1, <2>2, <2>6
      <3>2. k # i
        BY <2>1, <2>5, <3>1
      <3>3. ASSUME k < i PROVE FALSE
        <4>1. k \in 1 .. (i - 1) /\ k \in DOMAIN pending[q]
          BY <2>6, <3>1, <3>3
        <4>2. pending[q][k] = r2
          BY <2>1, <2>5, <4>1
        <4>. QED BY <2>2, <4>1, <4>2
      <3>. QED BY <3>1, <3>2, <3>3
    <2>8. i \in 1 .. n
      BY <2>6, <2>7
    <2>9. /\ f + i - 1 \in DOMAIN waiting'[q] /\ waiting'[q][f + i - 1] = r1
          /\ f + k - 1 \in DOMAIN waiting'[q] /\ waiting'[q][f + k - 1] = r2
      BY <2>1, <2>2, <2>5, <2>8
    <2>10. /\ WaitsUnder(r1, f + i - 1)' /\ WaitsUnder(r2, f + k - 1)'
      BY <2>1, <2>9 DEF WaitsUnder, q
    <2>11. f + i - 1 \in 1 .. nextId' /\ f + k - 1 \in 1 .. nextId' /\ f + i - 1 < f + k - 1
      BY <1>1, <2>1, <2>6, <2>7, <2>8, <2>9
    <2>. QED BY <2>10, <2>11
  <1>4. ASSUME NEW r \in Requests, Sent(r), QueueOf(CommandOf[r]) # "Priority"
        PROVE  /\ pending["Priority"] = <<>>
               /\ DOMAIN waiting'["Priority"] = {} /\ DOMAIN pending'["Priority"] = {}
    <2>1. QueueOf(CommandOf[r]) \in Processed(p, w)
      BY <1>1, <1>2, <1>4, QueueOfType, DrainSends
    <2>2. ~IsFull(w, "Priority") /\ p["Priority"] = <<>>
      BY <1>4, <2>1 DEF Processed, HasPending
    <2>3. "Priority" \in QueueNames
      BY DEF QueueNames
    <2>4. DOMAIN w["Priority"] = {}
      <3>1. IsFiniteSet(DOMAIN w["Priority"]) /\ Cardinality(DOMAIN w["Priority"]) \in Nat
        BY <1>1, <2>3, WaitingFinite
      <3>2. Cardinality(DOMAIN w["Priority"]) = 0
        BY <2>2, <3>1 DEF IsFull, FreeSlots, MaxSize
      <3>. QED BY <3>1, <3>2, FS_EmptySet
    <2>5. PICK n, f \in Nat :
             Takes(p["Priority"], w["Priority"], pending'["Priority"], waiting'["Priority"], n, f)
      BY <1>1, <2>3, DrainTakes
    <2>6. Len(p["Priority"]) = 0
      BY <2>2, EmptySeq
    <2>7. n = 0
      BY <2>5, <2>6 DEF Takes
    <2>8. DOMAIN waiting'["Priority"] = {} /\ DOMAIN pending'["Priority"] = {}
      BY <2>4, <2>5, <2>6, <2>7 DEF Takes
    <2>9. DOMAIN pending["Priority"] = {}
      BY <2>2, <2>3, EmptySeq
    <2>10. pending["Priority"] = <<>>
      <3>1. pending["Priority"] \in Seq(Requests) /\ DOMAIN pending["Priority"] = 1 .. Len(pending["Priority"])
            /\ Len(pending["Priority"]) \in Nat
        BY <1>1, <2>3, LenProperties
      <3>2. Len(pending["Priority"]) = 0
        <4>1. 1 \notin 1 .. Len(pending["Priority"])
          BY <2>9, <3>1
        <4>. QED BY <3>1, <4>1
      <3>. QED BY <3>1, <3>2, EmptySeq
    <2>. QED BY <2>8, <2>10
  <1>. QED BY <1>3, <1>4 DEF PriorityFirst

\* enqueue leaves what is listed where it is.
LEMMA EnqueuePrefix ==
  ASSUME NEW p \in [QueueNames -> Seq(Requests)], NEW r \in Requests, NEW q \in QueueNames,
         NEW i \in DOMAIN p[q]
  PROVE  i \in DOMAIN Enqueue(p, r)[q] /\ Enqueue(p, r)[q][i] = p[q][i]
  <1>1. Enqueue(p, r)[q] = IF q = QueueOf(CommandOf[r]) THEN Append(p[q], r) ELSE p[q]
    BY DEF Enqueue
  <1>2. i \in 1 .. Len(p[q]) /\ Len(p[q]) \in Nat
    BY LenProperties
  <1>3. /\ Append(p[q], r) \in Seq(Requests) /\ Len(Append(p[q], r)) = Len(p[q]) + 1
        /\ Append(p[q], r)[i] = p[q][i]
    BY <1>2, AppendProperties
  <1>4. i \in DOMAIN Append(p[q], r)
    BY <1>2, <1>3, LenProperties
  <1>. QED BY <1>1, <1>3, <1>4

\* Every step sends requests in order, and none of another queue before an edit.
LEMMA NextInOrder ==
  ASSUME IInv, Next
  PROVE  /\ OrderKept /\ PriorityFirst
         /\ (\E r \in Requests : Sent(r) /\ QueueOf(CommandOf[r]) # "Priority") =>
               DOMAIN pending'["Priority"] = {}
  <1>1. /\ pending \in [QueueNames -> Seq(Requests)]
        /\ WaitingOK(waiting, nextId) /\ nextId \in Nat \ {0} /\ Bounded(waiting)
    BY TypeOKParts DEF IInv, CapacityRespected, Bounded
  <1>2. IInv'
    BY NextIInv
  <1>3. ASSUME NEW r \in Requests, MakeRequest(r)
        PROVE  /\ OrderKept /\ PriorityFirst
               /\ (\E x \in Requests : Sent(x) /\ QueueOf(CommandOf[x]) # "Priority") =>
                     DOMAIN pending'["Priority"] = {}
    <2>1. Enqueue(pending, r) \in [QueueNames -> Seq(Requests)] /\ Drain(Enqueue(pending, r), waiting, owed)
      BY <1>1, <1>3, EnqueueType DEF MakeRequest
    <2>2. \A q \in QueueNames : \A i \in DOMAIN pending[q] :
             i \in DOMAIN Enqueue(pending, r)[q] /\ Enqueue(pending, r)[q][i] = pending[q][i]
      BY <1>1, EnqueuePrefix
    <2>. QED BY <1>1, <1>2, <2>1, <2>2, DrainInOrder
  <1>4. ASSUME UNCHANGED waiting
        PROVE  /\ OrderKept /\ PriorityFirst
               /\ ~ \E x \in Requests : Sent(x)
    BY <1>4, WaitingParts DEF Sent, OrderKept, PriorityFirst
  <1>5. ASSUME NEW packet \in owed, NEW success \in BOOLEAN,
               HandleResponsePacket(packet, success)
        PROVE  /\ OrderKept /\ PriorityFirst
               /\ (\E x \in Requests : Sent(x) /\ QueueOf(CommandOf[x]) # "Priority") =>
                     DOMAIN pending'["Priority"] = {}
    <2> DEFINE q == QueueOf(packet.Command)
               w == Dequeue(waiting, q, packet.Seq)
    <2>1. q \in QueueNames
      BY QueueOfType
    <2>2. CASE packet.Seq \in DOMAIN waiting[q]
      <3>1. Drain(pending, w, owed \ {packet})
        BY <1>5, <2>2 DEF HandleResponsePacket
      <3>2. WaitingOK(w, nextId) /\ Bounded(w)
        BY <1>1, <2>1, DequeueType
      <3>3. \A k \in QueueNames : /\ DOMAIN w[k] \subseteq DOMAIN waiting[k]
                                  /\ \A a \in DOMAIN w[k] : w[k][a] = waiting[k][a]
        BY <1>1, <2>1 DEF Dequeue, WaitingOK
      <3>4. \A k \in QueueNames : \A r : Held(w[k], r) => Held(waiting[k], r)
        BY <3>3 DEF Held
      <3> HIDE DEF w
      <3>. QED BY <1>1, <1>2, <3>1, <3>2, <3>4, DrainInOrder
    <2>3. CASE packet.Seq \notin DOMAIN waiting[q]
      BY <1>4, <1>5, <2>3 DEF HandleResponsePacket
    <2>. QED BY <2>2, <2>3
  <1>6. ASSUME NEW r \in Requests, Cancel(r) PROVE UNCHANGED waiting
    BY <1>6 DEF Cancel
  <1>. QED BY <1>3, <1>4, <1>5, <1>6 DEF Next

\* The requests of a queue are sent in the order they were made, and an edit is
\* never overtaken by a request of another queue (requestQueue.ts:165-196).
THEOREM OrderCorrect == Spec => SentInOrder
  <1>1. IInv /\ [Next]_vars => [OrderKept /\ PriorityFirst]_vars
    BY NextInOrder
  <1>. QED BY <1>1, SpecIInv, PTL DEF Spec, SentInOrder

-----------------------------------------------------------------------------
(***************************************************************************)
(* The queues implement the service of RequestService.                     *)
(***************************************************************************)

\* The status of each request is where it is.
StatusIsPlace ==
  \A r \in Requests :
     LET q == QueueOf(CommandOf[r]) IN
     /\ Status[r] \in Service!Statuses
     /\ Status[r] = "none" <=> promise[r] = "none"
     /\ Status[r] = "settled" <=> promise[r] \in {"resolved", "rejected"}
     /\ Status[r] = "queued" <=> Listed(pending[q], r)
     /\ Status[r] = "sent" <=> Held(waiting[q], r)

\* The status that the service sees is the place that the queues know.
LEMMA StatusParts == Placed => StatusIsPlace
  <1> SUFFICES ASSUME Placed, NEW r \in Requests
               PROVE  LET q == QueueOf(CommandOf[r]) IN
                      /\ Status[r] \in Service!Statuses
                      /\ Status[r] = "none" <=> promise[r] = "none"
                      /\ Status[r] = "settled" <=> promise[r] \in {"resolved", "rejected"}
                      /\ Status[r] = "queued" <=> Listed(pending[q], r)
                      /\ Status[r] = "sent" <=> Held(waiting[q], r)
    BY DEF StatusIsPlace
  <1>1. promise[r] \in {"none", "open", "resolved", "rejected"}
    BY PlacedParts
  <1>2. LET q == QueueOf(CommandOf[r]) IN
        /\ ~(Listed(pending[q], r) /\ Held(waiting[q], r))
        /\ promise[r] # "open" => ~Listed(pending[q], r) /\ ~Held(waiting[q], r)
    BY PlacedParts
  <1>3. Status[r] = StatusOf(r)
    BY DEF Status
  <1>. QED BY <1>1, <1>2, <1>3, WaitingParts DEF StatusOf, Service!Statuses

\* A set that holds one request at most.
LEMMA AtMostOne ==
  ASSUME NEW S, NEW x, S \subseteq {x}
  PROVE  Cardinality(S) <= 1
  <1>1. IsFiniteSet({x}) /\ Cardinality({x}) = 1
    BY FS_Singleton
  <1>. QED BY <1>1, FS_Subset

\* No more requests of a class are at the server than its queue has room for.
SentFits ==
  \A q \in QueueNames :
     Cardinality({r \in Service!With(Status, "sent") : QueueOf(CommandOf[r]) = q}) <= MaxSize(q)

\* The service sends no more than a queue may have under way.
LEMMA SentFit == Placed => SentFits
  <1> SUFFICES ASSUME Placed, NEW q \in QueueNames
               PROVE  Cardinality({r \in Service!With(Status, "sent") : QueueOf(CommandOf[r]) = q})
                         <= MaxSize(q)
    BY DEF SentFits
  <1> DEFINE sent == {r \in Service!With(Status, "sent") : QueueOf(CommandOf[r]) = q}
             image == {waiting[q][id] : id \in DOMAIN waiting[q]}
  <1>1. sent \subseteq image
    BY StatusParts DEF StatusIsPlace, Service!With, Held
  <1>2. /\ IsFiniteSet(DOMAIN waiting[q]) /\ Cardinality(DOMAIN waiting[q]) \in Nat
        /\ Cardinality(DOMAIN waiting[q]) <= MaxSize(q)
    BY PlacedParts, WaitingFinite DEF Bounded
  <1>3. IsFiniteSet(image) /\ Cardinality(image) <= Cardinality(DOMAIN waiting[q])
    <2>1. waiting[q] \in Surjection(DOMAIN waiting[q], image)
      BY PlacedParts DEF WaitingOK, Surjection
    <2>. QED BY <1>2, <2>1, FS_Surjection
  <1>4. Cardinality(image) \in Nat
    BY <1>3, FS_CardinalityType
  <1>5. IsFiniteSet(sent) /\ Cardinality(sent) <= Cardinality(image) /\ Cardinality(sent) \in Nat
    BY <1>1, <1>3, FS_Subset, FS_CardinalityType
  <1>. QED BY <1>2, <1>3, <1>4, <1>5, MaxSizeType

\* The service starts with no request made.
LEMMA InitService == Init => Service!Init
  <1> SUFFICES ASSUME Init
               PROVE  Service!Init
    OBVIOUS
  <1>1. \A r \in Requests : StatusOf(r) = "none"
    BY DEF Init, StatusOf
  <1>. QED BY <1>1 DEF Status, Service!Init

\* The two facts hold of the next state too.
LEMMA PlacesNext == Placed' => StatusIsPlace' /\ SentFits'
  BY StatusParts, SentFit, PTL

\* What the service lets one request do.
LEMMA MovesAre ==
  ASSUME NEW s, NEW t,
         \/ s = t /\ s \in Service!Statuses
         \/ s = "none" /\ t \in {"queued", "sent"}
         \/ s = "queued" /\ t \in {"sent", "dropped"}
         \/ s = "sent" /\ t = "settled"
  PROVE  <<s, t>> \in Service!Moves
  BY DEF Service!Moves

\* One step of the queues moves each request as the service allows, and at most
\* one of them by a call, an answer or a cancellation.
LEMMA NextMoves ==
  ASSUME Placed, Placed', Next
  PROVE  /\ \A r \in Requests : <<Status[r], Status'[r]>> \in Service!Moves
         /\ \E x \in Requests : \A r \in Requests \ {x} :
               /\ Status[r] = "none" => Status'[r] = "none"
               /\ Status'[r] = "settled" => Status[r] = "settled"
               /\ Status'[r] = "dropped" => Status[r] = "dropped"
  <1>1. StatusIsPlace /\ StatusIsPlace'
    BY StatusParts, PlacesNext
  <1>2. /\ \A r \in Requests : Status[r] \in {"none", "queued", "sent", "settled", "dropped"}
        /\ \A r \in Requests : Status'[r] \in {"none", "queued", "sent", "settled", "dropped"}
        /\ promise \in [Requests -> {"none", "open", "resolved", "rejected"}]
    BY <1>1, PlacedParts DEF StatusIsPlace, Service!Statuses
  <1>3. ASSUME NEW r \in Requests
        PROVE  LET q == QueueOf(CommandOf[r]) IN
               /\ Status[r] = "none" <=> promise[r] = "none"
               /\ Status[r] = "settled" <=> promise[r] \in {"resolved", "rejected"}
               /\ Status[r] = "queued" <=> Listed(pending[q], r)
               /\ Status[r] = "sent" <=> Held(waiting[q], r)
               /\ Status'[r] = "none" <=> promise'[r] = "none"
               /\ Status'[r] = "settled" <=> promise'[r] \in {"resolved", "rejected"}
               /\ Status'[r] = "queued" <=> Listed(pending'[q], r)
               /\ Status'[r] = "sent" <=> Held(waiting'[q], r)
    BY <1>1 DEF StatusIsPlace
  \* A request the step is not about.
  <1>4. ASSUME NEW r \in Requests, promise'[r] = promise[r],
               LET q == QueueOf(CommandOf[r]) IN
               /\ Listed(pending'[q], r) => Listed(pending[q], r)
               /\ Held(waiting[q], r) => Held(waiting'[q], r)
               /\ Held(waiting'[q], r) => Held(waiting[q], r) \/ Listed(pending[q], r)
               /\ Listed(pending[q], r) => Listed(pending'[q], r) \/ Held(waiting'[q], r)
        PROVE  Status'[r] = Status[r] \/ (Status[r] = "queued" /\ Status'[r] = "sent")
    BY <1>2, <1>3, <1>4
  <1>5. ASSUME NEW x \in Requests,
               \A r \in Requests \ {x} :
                  Status'[r] = Status[r] \/ (Status[r] = "queued" /\ Status'[r] = "sent"),
               \/ Status'[x] = Status[x]
               \/ Status[x] = "none" /\ Status'[x] \in {"queued", "sent"}
               \/ Status[x] = "queued" /\ Status'[x] = "dropped"
               \/ Status[x] = "sent" /\ Status'[x] = "settled"
        PROVE  /\ \A r \in Requests : <<Status[r], Status'[r]>> \in Service!Moves
               /\ \E y \in Requests : \A r \in Requests \ {y} :
                     /\ Status[r] = "none" => Status'[r] = "none"
                     /\ Status'[r] = "settled" => Status[r] = "settled"
                     /\ Status'[r] = "dropped" => Status[r] = "dropped"
    <2>1. ASSUME NEW r \in Requests PROVE <<Status[r], Status'[r]>> \in Service!Moves
      <3>1. Status[r] \in Service!Statuses
        BY <1>2 DEF Service!Statuses
      <3>. QED BY <1>5, <3>1, MovesAre
    <2>. QED BY <1>5, <2>1
  <1>6. ASSUME NEW x \in Requests, MakeRequest(x)
        PROVE  /\ \A r \in Requests \ {x} :
                     Status'[r] = Status[r] \/ (Status[r] = "queued" /\ Status'[r] = "sent")
               /\ Status[x] = "none" /\ Status'[x] \in {"queued", "sent"}
    <2>1. ASSUME NEW r \in Requests \ {x}
          PROVE  Status'[r] = Status[r] \/ (Status[r] = "queued" /\ Status'[r] = "sent")
      <3>1. QueueOf(CommandOf[r]) \in QueueNames
        BY QueueOfType
      <3>. QED BY <1>2, <1>4, <1>6, <3>1, MakeRequestEffect
    <2>2. QueueOf(CommandOf[x]) \in QueueNames
      BY QueueOfType
    <2>3. LET q == QueueOf(CommandOf[x]) IN
          promise[x] = "none" /\ (Listed(pending'[q], x) \/ Held(waiting'[q], x))
      BY <1>6, <2>2, MakeRequestEffect
    <2>. QED BY <1>3, <2>1, <2>3
  <1>7. ASSUME NEW x \in Requests, Cancel(x)
        PROVE  /\ \A r \in Requests \ {x} :
                     Status'[r] = Status[r] \/ (Status[r] = "queued" /\ Status'[r] = "sent")
               /\ Status'[x] = Status[x] \/ (Status[x] = "queued" /\ Status'[x] = "dropped")
    <2>1. /\ UNCHANGED <<waiting, promise>>
          /\ \A q \in QueueNames : \A r : /\ Listed(pending'[q], r) => Listed(pending[q], r)
                                          /\ Listed(pending[q], r) /\ r # x => Listed(pending'[q], r)
      BY <1>7, CancelEffect
    <2>2. ASSUME NEW r \in Requests \ {x} PROVE Status'[r] = Status[r]
      BY <1>2, <1>3, <2>1, QueueOfType
    <2>3. Status'[x] = Status[x] \/ (Status[x] = "queued" /\ Status'[x] = "dropped")
      <3>1. QueueOf(CommandOf[x]) \in QueueNames
        BY QueueOfType
      <3>. QED BY <1>2, <1>3, <2>1, <3>1
    <2>. QED BY <2>2, <2>3
  <1>8. ASSUME NEW packet \in owed, NEW success \in BOOLEAN,
               HandleResponsePacket(packet, success)
        PROVE  \E x \in Requests :
                  /\ \A r \in Requests \ {x} :
                        Status'[r] = Status[r] \/ (Status[r] = "queued" /\ Status'[r] = "sent")
                  /\ Status[x] = "sent" /\ Status'[x] = "settled"
    <2>1. PICK x \in Requests :
             LET k == QueueOf(CommandOf[x]) IN
             /\ promise' = [promise EXCEPT ![x] = IF success THEN "resolved" ELSE "rejected"]
             /\ Held(waiting[k], x)
             /\ \A q \in QueueNames : \A r :
                   /\ Listed(pending'[q], r) => Listed(pending[q], r)
                   /\ Held(waiting[q], r) /\ ~(q = k /\ r = x) => Held(waiting'[q], r)
                   /\ Held(waiting'[q], r) =>
                         (Held(waiting[q], r) /\ ~(q = k /\ r = x)) \/ Listed(pending[q], r)
                   /\ Listed(pending[q], r) => Listed(pending'[q], r) \/ Held(waiting'[q], r)
      BY <1>8, ResponseEffect
    <2>2. ASSUME NEW r \in Requests \ {x}
          PROVE  Status'[r] = Status[r] \/ (Status[r] = "queued" /\ Status'[r] = "sent")
      <3>1. QueueOf(CommandOf[r]) \in QueueNames
        BY QueueOfType
      <3>. QED BY <1>2, <1>4, <2>1, <3>1
    <2>3. Status[x] = "sent"
      BY <1>3, <2>1
    <2>4. promise'[x] \in {"resolved", "rejected"}
      BY <1>2, <2>1
    <2>5. Status'[x] = "settled"
      BY <1>3, <2>4
    <2>. QED BY <2>2, <2>3, <2>5
  <1>. QED BY <1>5, <1>6, <1>7, <1>8 DEF Next

\* A step of the queues is a step of the service.
LEMMA NextService ==
  ASSUME Placed, Placed', [Next]_vars
  PROVE  [Service!Next]_Status
  <1>1. CASE UNCHANGED vars
    BY <1>1 DEF vars, Status, StatusOf, IsPending, IsWaiting
  <1>2. CASE Next
    <2>1. Status' \in [Requests -> Service!Statuses]
      <3>1. \A r \in Requests : Status'[r] \in Service!Statuses
        BY PlacesNext DEF StatusIsPlace, Service!Statuses
      <3>2. Status' = [r \in Requests |-> StatusOf(r)']
        BY DEF Status
      <3>. QED BY <3>1, <3>2
    <2>2. \A r \in Requests : <<Status[r], Status'[r]>> \in Service!Moves
      BY <1>2, NextMoves
    <2>3. \A c \in QueueNames :
             Cardinality({r \in Service!With(Status', "sent") : QueueOf(CommandOf[r]) = c}) <= MaxSize(c)
      BY PlacesNext DEF SentFits, Service!With
    <2>4. ASSUME NEW r \in Service!With(Status', "sent") \ Service!With(Status, "sent"),
                 QueueOf(CommandOf[r]) # "Priority",
                 NEW x \in Service!With(Status', "sent") \cup Service!With(Status', "queued")
          PROVE  QueueOf(CommandOf[x]) # "Priority"
      <3>1. /\ r \in Requests /\ x \in Requests
            /\ Status'[r] = "sent" /\ Status[r] # "sent" /\ Status'[x] \in {"sent", "queued"}
        BY <2>4 DEF Service!With
      <3>2. Sent(r)
        BY <3>1, StatusParts, PlacesNext, WaitingParts DEF StatusIsPlace, Sent
      <3>3. DOMAIN waiting'["Priority"] = {} /\ DOMAIN pending'["Priority"] = {}
        BY <1>2, <2>4, <3>1, <3>2, NextInOrder DEF Placed, PriorityFirst
      <3>4. LET q == QueueOf(CommandOf[x]) IN Listed(pending'[q], x) \/ Held(waiting'[q], x)
        BY <3>1, PlacesNext DEF StatusIsPlace
      <3>. QED BY <3>3, <3>4 DEF Listed, Held
    <2>5. PICK x \in Requests : \A r \in Requests \ {x} :
               /\ Status[r] = "none" => Status'[r] = "none"
               /\ Status'[r] = "settled" => Status[r] = "settled"
               /\ Status'[r] = "dropped" => Status[r] = "dropped"
      BY <1>2, NextMoves
    <2>6. /\ Service!With(Status, "none") \ Service!With(Status', "none") \subseteq {x}
          /\ Service!With(Status', "settled") \ Service!With(Status, "settled") \subseteq {x}
          /\ Service!With(Status', "dropped") \ Service!With(Status, "dropped") \subseteq {x}
      BY <2>5 DEF Service!With
    <2>7. /\ Cardinality(Service!With(Status, "none") \ Service!With(Status', "none")) <= 1
          /\ Cardinality(Service!With(Status', "settled") \ Service!With(Status, "settled")) <= 1
          /\ Cardinality(Service!With(Status', "dropped") \ Service!With(Status, "dropped")) <= 1
      BY <2>6, AtMostOne
    <2>. QED BY <2>1, <2>2, <2>3, <2>4, <2>7 DEF Service!Next, Service!Cardinality, Cardinality
  <1>. QED BY <1>1, <1>2

\* What the features rely on: a request is queued, sent and settled, or dropped
\* before it is sent, within the capacities and behind the edits, whatever
\* makeRequest, cancelRequest and _handleResponsePacket do in between.
THEOREM ServiceImplemented == Spec => ImplementsService
  <1>1. Placed /\ Placed' /\ [Next]_vars => [Service!Next]_Status
    BY NextService
  <1>. QED BY <1>1, InitService, SpecPlaced, PTL DEF Spec, ImplementsService, Service!Spec
=============================================================================
