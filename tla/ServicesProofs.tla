------------------------------ MODULE ServicesProofs ------------------------------
(***************************************************************************)
(* Proofs about Services: the project contexts, the capture of logs and    *)
(* the debugging of Blazor apps, for any documents, keys, lists, captures  *)
(* and launches and any bounds.                                            *)
(*                                                                         *)
(* The state of ProjectContext falls into two parts that few steps change  *)
(* together: the caches of updateCaches, and what the service is about to  *)
(* announce.  That no older answer is verified is not inductive alone: it  *)
(* takes that a refresh has one query, and that while it is open nothing   *)
(* is to be verified.  That a document is warned about once takes that no  *)
(* file is looked up of a document that was warned about.                  *)
(*                                                                         *)
(* That the levels of the server settle takes who is to put them back      *)
(* while they have not; that what is removed is archived takes that a dump *)
(* is its command's own and that a trace is made once.                     *)
(*                                                                         *)
(* That sessions end together takes that a launch which no other crossed   *)
(* is the one that is tracked: its running sessions are tracked or to be   *)
(* stopped, and once one has ended nothing is tracked any more.            *)
(***************************************************************************)
EXTENDS Services, Sequences, FiniteSetTheorems, TLAPS

\* The files of the key k.
Users(k) == {d \in Docs : uriKey[d] = k}

\* The maps of updateCaches: their counts, and the contexts these keep alive.
CacheTypes ==
    /\ uriKey \in [Docs -> Keys \cup {NoKey}]
    /\ context \in [Keys -> Nat]
    /\ refCount \in [Keys -> Nat]

Counts ==
    /\ \A k \in Keys : refCount[k] = Cardinality(Users(k))
    /\ \A k \in Keys : refCount[k] > 0 => context[k] > 0

InList == ListOfKey => \A l \in Lists : context[l.key] <= l.n

Caches == CacheTypes /\ Counts /\ InList

\* What is on its way to be announced, and what was.
EventTypes ==
    /\ source \in Sources
    /\ queries \subseteq [doc : Docs, source : Sources]
    /\ timers \subseteq [source : Sources, event : Contexts]
    /\ \A t \in timers : t.event.doc \in Docs
    /\ shown \in Contexts
    /\ stats \subseteq Docs \X Nat
    /\ notified \subseteq Docs
    /\ toasts \in [Docs -> Nat]

\* A refresh has one query; while that of the last one is open, nothing is to be
\* verified.
Refreshes ==
    /\ \A q \in queries : q.source <= source
    /\ \A q, r \in queries : q.source = r.source => q = r
    /\ \A q \in queries : q.source = source => timers = {}
    /\ \A t \in timers : t.source = source
    /\ \A t, u \in timers : t = u

\* One file is looked up at a time, of a document that was not warned about.
Warnings ==
    /\ IsFiniteSet(stats)
    /\ QuickStat =>
          /\ \A s \in stats : s[1] \notin notified
          /\ \A s, t \in stats : s = t
          /\ \A d \in Docs : toasts[d] = IF d \in notified THEN 1 ELSE 0

Announcements == EventTypes /\ Refreshes /\ Warnings

CommandTypes ==
    /\ active \in Docs \cup {NoDoc}
    /\ server \in {"stopped", "started", "complete"}
    /\ asked \subseteq Docs \X (1 .. MaxCommands)
    /\ picks \subseteq [doc : Docs, list : Lists]
    /\ commands \in 0 .. MaxCommands

\* The inductive invariant.
IInv == CommandTypes /\ Caches /\ Announcements

-----------------------------------------------------------------------------
\* The assumption on the constants, in parts.
LEMMA Constants ==
    /\ NoDoc \notin Docs /\ NoKey \notin Keys
    /\ IsFiniteSet(Docs)
    /\ MaxRefreshes \in Nat /\ MaxCommands \in Nat
BY ContextAssumption

\* A list of the server has a key, and a default among its contexts.
LEMMA ListFacts ==
    ASSUME NEW l \in Lists
    PROVE  /\ l.key \in Keys /\ l.n \in Nat \ {0} /\ l.default \in Nat \ {0}
           /\ l.default <= l.n /\ l.misc \in BOOLEAN
<1>1. l \in [key : Keys, n : Nat \ {0}, default : Nat \ {0}, misc : BOOLEAN] /\ l.default <= l.n
    BY ContextAssumption
<1>. QED BY <1>1

\* _emptyProjectContext is never verified.
LEMMA EmptyIsContext ==
    ASSUME NEW d \in Docs \cup {NoDoc}
    PROVE  Empty(d) \in Contexts /\ ~Empty(d).verified
BY DEF Empty, Event, Contexts

\* The service starts with empty maps and nothing to announce.
LEMMA InitIInv == Init => IInv
<1> SUFFICES ASSUME Init PROVE IInv
    OBVIOUS
<1>1. ASSUME NEW k \in Keys
      PROVE  Users(k) = {}
    BY <1>1, Constants DEF Init, Users
<1>2. Caches
  <2>1. Counts
      BY <1>1, FS_EmptySet DEF Init, Counts
  <2>2. InList
      BY ListFacts DEF Init, InList
  <2>. QED BY <2>1, <2>2 DEF Init, Caches, CacheTypes
<1>3. Announcements
  <2>1. Empty(NoDoc) \in Contexts /\ 0 \in Sources
      BY EmptyIsContext, Constants DEF Sources
  <2>. QED BY <2>1, FS_EmptySet DEF Init, Announcements, EventTypes, Refreshes, Warnings
<1>4. CommandTypes
    BY Constants DEF Init, CommandTypes
<1>. QED BY <1>2, <1>3, <1>4 DEF IInv

-----------------------------------------------------------------------------
\* The files of a key after the document d went from old to new.
LEMMA MovedUsers ==
    ASSUME CacheTypes, NEW d \in Docs, NEW new \in Keys \cup {NoKey},
           uriKey' = [uriKey EXCEPT ![d] = new], uriKey[d] # new, NEW k \in Keys
    PROVE  Users(k)' = IF k = uriKey[d] THEN Users(k) \ {d}
                       ELSE IF k = new THEN Users(k) \cup {d} ELSE Users(k)
BY DEF CacheTypes, Users

\* How the number of files of each key changes as d moves.
LEMMA MovedCount ==
    ASSUME CacheTypes, NEW d \in Docs, NEW new \in Keys \cup {NoKey},
           uriKey' = [uriKey EXCEPT ![d] = new], uriKey[d] # new \/ new = NoKey, NEW k \in Keys
    PROVE  /\ Cardinality(Users(k)) \in Nat
           /\ k = uriKey[d] => Cardinality(Users(k)) > 0
           /\ Cardinality(Users(k)') =
                IF k = uriKey[d] THEN Cardinality(Users(k)) - 1
                ELSE IF k = new THEN Cardinality(Users(k)) + 1 ELSE Cardinality(Users(k))
<1>1. IsFiniteSet(Users(k))
    BY Constants, FS_Subset DEF Users
<1>2. Cardinality(Users(k)) \in Nat
    BY <1>1, FS_CardinalityType
<1>3. CASE uriKey[d] = new
  <2>1. uriKey' = uriKey /\ k # new
      BY <1>3, Constants DEF CacheTypes
  <2>. QED BY <1>2, <1>3, <2>1 DEF Users
<1>4. CASE uriKey[d] # new
  <2>1. CASE k = uriKey[d]
    <3>1. d \in Users(k) /\ Users(k)' = Users(k) \ {d}
        BY <1>4, <2>1, MovedUsers DEF Users
    <3>2. Cardinality(Users(k)) # 0
        BY <1>1, <3>1, FS_EmptySet
    <3>3. Cardinality(Users(k) \ {d}) = Cardinality(Users(k)) - 1
        BY <1>1, <3>1, FS_RemoveElement
    <3>. QED BY <1>2, <2>1, <3>1, <3>2, <3>3
  <2>2. CASE k # uriKey[d] /\ k = new
    <3>1. Users(k)' = Users(k) \cup {d}
        BY <1>4, <2>2, MovedUsers
    <3>3. d \notin Users(k)
        BY <2>2 DEF Users
    <3>2. Cardinality(Users(k) \cup {d}) = Cardinality(Users(k)) + 1
        BY <1>1, <3>3, FS_AddElement
    <3>. QED BY <1>2, <2>2, <3>1, <3>2
  <2>3. CASE k # uriKey[d] /\ k # new
      BY <1>2, <1>4, <2>3, MovedUsers
  <2>. QED BY <2>1, <2>2, <2>3
<1>. QED BY <1>3, <1>4

\* updateCaches keeps the maps together, and changes the context of no key that
\* documents use before and after it.
LEMMA UpdateCachesKeeps ==
    ASSUME Caches, NEW d \in Docs, NEW l \in Lists, UpdateCaches(d, l)
    PROVE  /\ Caches'
           /\ \A k \in Keys : refCount[k] > 0 /\ refCount'[k] > 0 => context'[k] = context[k]
<1>1. CASE uriKey[d] = l.key
  <2>1. UNCHANGED cacheVars
      BY <1>1 DEF UpdateCaches
  <2>. QED BY <2>1 DEF cacheVars, Caches, CacheTypes, Counts, InList, Users
<1>2. CASE uriKey[d] # l.key
  <2> DEFINE new == IF l.n > 1 THEN l.key ELSE NoKey
             old == uriKey[d]
  <2>1. /\ l.key \in Keys /\ l.n \in Nat \ {0} /\ l.default \in Nat \ {0} /\ l.default <= l.n
        /\ new \in Keys \cup {NoKey}
      BY ListFacts
  <2>2. uriKey' = [uriKey EXCEPT ![d] = new]
      BY <1>2 DEF UpdateCaches
  <2>3. /\ \A k \in Keys : refCount[k] \in Nat /\ context[k] \in Nat
        /\ \A k \in Keys : refCount[k] = Cardinality(Users(k))
        /\ \A k \in Keys : refCount[k] > 0 => context[k] > 0
      BY DEF Caches, CacheTypes, Counts
  <2>4. refCount' = [k \in Keys |->
               CASE k = old -> IF refCount[k] <= 1 THEN 0 ELSE refCount[k] - 1
                 [] k = l.key /\ l.n > 1 -> refCount[k] + 1
                 [] OTHER -> refCount[k]]
      BY <1>2 DEF UpdateCaches
  <2>5. context' = [k \in Keys |->
               CASE k = old /\ refCount[k] <= 1 -> 0
                 [] k = l.key /\ l.n > 1 /\ context[k] = 0 -> l.default
                 [] OTHER -> context[k]]
      BY <1>2 DEF UpdateCaches
  <2>6. old # new \/ new = NoKey
      BY <1>2
  <2>7. ASSUME NEW k \in Keys
        PROVE  /\ Cardinality(Users(k)) \in Nat
               /\ k = old => Cardinality(Users(k)) > 0
               /\ Cardinality(Users(k)') =
                    IF k = old THEN Cardinality(Users(k)) - 1
                    ELSE IF k = new THEN Cardinality(Users(k)) + 1 ELSE Cardinality(Users(k))
    <3>1. CacheTypes
        BY DEF Caches
    <3>2. PICK n \in Keys \cup {NoKey} : n = new
        BY <2>1
    <3>3. uriKey' = [uriKey EXCEPT ![d] = n] /\ (uriKey[d] # n \/ n = NoKey)
        BY <2>2, <2>6, <3>2
    <3>. HIDE DEF new
    <3>. QED BY <2>7, <3>1, <3>2, <3>3, MovedCount
  <2>8. ASSUME NEW k \in Keys
        PROVE  /\ refCount'[k] = Cardinality(Users(k)') /\ refCount'[k] \in Nat
               /\ refCount'[k] = IF k = old THEN refCount[k] - 1
                                 ELSE IF k = new THEN refCount[k] + 1 ELSE refCount[k]
               /\ k = old => refCount[k] > 0
    <3>1. k = new <=> k = l.key /\ l.n > 1
        BY <2>8, Constants
    <3>2. refCount'[k] = CASE k = old -> IF refCount[k] <= 1 THEN 0 ELSE refCount[k] - 1
                 [] k = l.key /\ l.n > 1 -> refCount[k] + 1
                 [] OTHER -> refCount[k]
        BY <2>4, <2>8
    <3>3. refCount[k] \in Nat /\ refCount[k] = Cardinality(Users(k))
        BY <2>3, <2>8
    <3>4. /\ k = old => Cardinality(Users(k)) > 0
          /\ Cardinality(Users(k)') =
                    IF k = old THEN Cardinality(Users(k)) - 1
                    ELSE IF k = new THEN Cardinality(Users(k)) + 1 ELSE Cardinality(Users(k))
        BY <2>7, <2>8
    <3>5. k = old => k # l.key
        BY <1>2
    <3>. HIDE DEF new, old
    <3>. QED BY <3>1, <3>2, <3>3, <3>4, <3>5
  <2>9. ASSUME NEW k \in Keys
        PROVE  /\ context'[k] \in {0, context[k], l.default} /\ context'[k] \in Nat
               /\ context'[k] = l.default => k = l.key \/ context[k] = l.default
               /\ refCount'[k] > 0 => context'[k] > 0
               /\ refCount[k] > 0 /\ refCount'[k] > 0 => context'[k] = context[k]
    <3>1. context'[k] = CASE k = old /\ refCount[k] <= 1 -> 0
                 [] k = l.key /\ l.n > 1 /\ context[k] = 0 -> l.default
                 [] OTHER -> context[k]
        BY <2>5, <2>9
    <3>2. k = new <=> k = l.key /\ l.n > 1
        BY <2>9, Constants
    <3>3. k = old => k # l.key
        BY <1>2
    <3>. HIDE DEF new, old
    <3>. QED BY <2>1, <2>3, <2>8, <2>9, <3>1, <3>2, <3>3
  <2>10. CacheTypes'
    <3>1. refCount' \in [Keys -> Nat]
        BY <2>4, <2>8
    <3>2. context' \in [Keys -> Nat]
        BY <2>5, <2>9
    <3>3. uriKey' \in [Docs -> Keys \cup {NoKey}]
        BY <2>1, <2>2 DEF Caches, CacheTypes
    <3>. QED BY <3>1, <3>2, <3>3 DEF CacheTypes
  <2>11. Counts'
      BY <2>8, <2>9 DEF Counts
  <2>12. InList'
    <3> SUFFICES ASSUME ListOfKey, NEW m \in Lists
                 PROVE  context'[m.key] <= m.n
        BY DEF InList, ListOfKey
    <3>1. /\ m.key \in Keys /\ m.n \in Nat /\ context[m.key] <= m.n
          /\ m.key = l.key => m.n = l.n
        BY ListFacts DEF Caches, InList, ListOfKey
    <3>. QED BY <2>1, <2>3, <2>9, <3>1
  <2>. QED BY <2>9, <2>10, <2>11, <2>12 DEF Caches
<1>. QED BY <1>1, <1>2

\* The answer to a query is announced with a key of the server, or none.
LEMMA AnswerIsContext ==
    ASSUME Caches', NEW d \in Docs, NEW l \in Lists, NEW verified \in BOOLEAN, NEW more \in BOOLEAN
    PROVE  Event(d, ContextOf(d, l)[1], ContextOf(d, l)[2], verified, l.misc, more) \in Contexts
BY ListFacts DEF ContextOf, Caches, CacheTypes, Event, Contexts

-----------------------------------------------------------------------------
\* What the listeners do with an event leaves one file at most being looked up.
LEMMA FireKeeps ==
    ASSUME EventTypes, Warnings, NEW e \in Contexts, Fire(e),
           e.verified => e.doc \in Docs /\ MayVerify
    PROVE  /\ shown' \in Contexts /\ stats' \subseteq Docs \X Nat
           /\ notified' \subseteq Docs /\ toasts' \in [Docs -> Nat]
           /\ Warnings'
<1>1. /\ shown' = e /\ notified' = notified /\ toasts' = toasts
      /\ stats' = IF e.verified /\ e.misc /\ server = "complete" /\ e.doc \notin notified
                  THEN stats \cup {<<e.doc, Cardinality(stats) + 1>>} ELSE stats
    BY DEF Fire, Notify
<1>2. Cardinality(stats) \in Nat
    BY FS_CardinalityType DEF Warnings
<1>3. CASE e.verified /\ e.misc /\ server = "complete" /\ e.doc \notin notified
  <2>1. stats' = stats \cup {<<e.doc, Cardinality(stats) + 1>>} /\ e.doc \in Docs /\ MayVerify
      BY <1>1, <1>3
  <2>2. IsFiniteSet(stats')
      BY <2>1, FS_AddElement DEF Warnings
  <2>. QED BY <1>1, <1>2, <1>3, <2>1, <2>2 DEF EventTypes, Warnings, MayVerify
<1>4. CASE ~(e.verified /\ e.misc /\ server = "complete" /\ e.doc \notin notified)
    BY <1>1, <1>4 DEF EventTypes, Warnings
<1>. QED BY <1>3, <1>4

\* A refresh takes the next source, which no query has.
LEMMA RefreshKeeps ==
    ASSUME Announcements, NEW d \in Docs \cup {NoDoc}, NEW isRunning \in BOOLEAN, Refresh(d, isRunning)
    PROVE  Announcements'
<1>1. source \in Nat /\ MaxRefreshes \in Nat
    BY Constants DEF Announcements, EventTypes, Sources
<1>2. CASE d = NoDoc
    BY <1>2 DEF Refresh, notifierVars, Announcements, EventTypes, Refreshes, Warnings
<1>3. CASE d # NoDoc
  <2>1. d \in Docs /\ source' = source + 1 /\ source' \in Sources /\ timers' = {}
      BY <1>1, <1>3 DEF Refresh, Sources
  <2>2. CASE isRunning
    <3>1. /\ queries' = queries \cup {[doc |-> d, source |-> source + 1]}
          /\ UNCHANGED <<shown, notifierVars>>
        BY <1>3, <2>1, <2>2 DEF Refresh
    <3>2. EventTypes'
        BY <2>1, <3>1 DEF Announcements, EventTypes, notifierVars
    <3>3. Refreshes'
      <4>1. \A q \in queries : q.source \in Nat /\ q.source <= source
          BY DEF Announcements, EventTypes, Refreshes, Sources
      <4>2. \A q, r \in queries : q.source = r.source => q = r
          BY DEF Announcements, Refreshes
      <4>. QED BY <1>1, <2>1, <3>1, <4>1, <4>2 DEF Refreshes
    <3>. QED BY <3>1, <3>2, <3>3 DEF Announcements, Warnings, notifierVars
  <2>3. CASE ~isRunning
    <3>1. Fire(Empty(d)) /\ UNCHANGED queries
        BY <1>3, <2>3 DEF Refresh
    <3>2. PICK e \in Contexts : e = Empty(d) /\ ~e.verified
        BY EmptyIsContext
    <3>3. /\ shown' \in Contexts /\ stats' \subseteq Docs \X Nat
          /\ notified' \subseteq Docs /\ toasts' \in [Docs -> Nat]
          /\ Warnings'
        BY <3>1, <3>2, FireKeeps DEF Announcements
    <3>4. EventTypes'
        BY <2>1, <3>1, <3>3 DEF Announcements, EventTypes
    <3>5. Refreshes'
      <4>1. \A q \in queries : q.source \in Nat /\ q.source <= source
          BY DEF Announcements, EventTypes, Refreshes, Sources
      <4>2. \A q, r \in queries : q.source = r.source => q = r
          BY DEF Announcements, Refreshes
      <4>. QED BY <1>1, <2>1, <3>1, <4>1, <4>2 DEF Refreshes
    <3>. QED BY <3>3, <3>4, <3>5 DEF Announcements
  <2>. QED BY <2>2, <2>3
<1>. QED BY <1>2, <1>3

\* The connection goes, and with it the queries on it.
LEMMA ServerStopsKeeps ==
    ASSUME IInv, ServerStops
    PROVE  IInv'
<1>1. CommandTypes' /\ Caches'
    BY DEF ServerStops, IInv, CommandTypes, Caches, CacheTypes, Counts, InList, Users, cacheVars
<1>2. CASE active = NoDoc
  <2>1. queries' = {} /\ UNCHANGED <<source, timers, shown, notifierVars>>
      BY <1>2 DEF ServerStops
  <2>. QED BY <1>1, <2>1 DEF IInv, Announcements, EventTypes, Refreshes, Warnings, notifierVars
<1>3. CASE active # NoDoc
  <2>1. /\ source < MaxRefreshes /\ source' = source + 1 /\ timers' = {} /\ queries' = {}
        /\ Fire(Empty(active))
      BY <1>3 DEF ServerStops
  <2>2. active \in Docs /\ source' \in Sources
      BY <1>3, <2>1, Constants DEF IInv, CommandTypes, Announcements, EventTypes, Sources
  <2>3. PICK e \in Contexts : e = Empty(active) /\ ~e.verified
      BY <2>2, EmptyIsContext
  <2>4. /\ shown' \in Contexts /\ stats' \subseteq Docs \X Nat
        /\ notified' \subseteq Docs /\ toasts' \in [Docs -> Nat]
        /\ Warnings'
      BY <2>1, <2>3, FireKeeps DEF IInv, Announcements
  <2>. QED BY <1>1, <2>1, <2>2, <2>4 DEF IInv, Announcements, EventTypes, Refreshes
<1>. QED BY <1>2, <1>3

\* A query of an older refresh is announced as nothing; that of the last one
\* updates the caches and starts the one verification.
LEMMA AnswerKeeps ==
    ASSUME IInv, NEW q \in queries, NEW l \in Lists, Answer(q, l)
    PROVE  /\ IInv'
           /\ \A k \in Keys : refCount[k] > 0 /\ refCount'[k] > 0 => context'[k] = context[k]
<1>1. /\ queries' = queries \ {q}
      /\ UNCHANGED <<active, server, source, commandVars>>
      /\ q.doc \in Docs /\ q.source \in Sources
    BY DEF Answer, IInv, Announcements, EventTypes
<1>2. CommandTypes'
    BY <1>1 DEF IInv, CommandTypes, commandVars
<1>3. CASE q.source # source
  <2>1. UNCHANGED <<cacheVars, timers>> /\ Fire(Empty(q.doc))
      BY <1>3 DEF Answer
  <2>2. PICK e \in Contexts : e = Empty(q.doc) /\ ~e.verified
      BY <1>1, EmptyIsContext
  <2>3. /\ shown' \in Contexts /\ stats' \subseteq Docs \X Nat
        /\ notified' \subseteq Docs /\ toasts' \in [Docs -> Nat]
        /\ Warnings'
      BY <2>1, <2>2, FireKeeps DEF IInv, Announcements
  <2>4. Announcements'
      BY <1>1, <2>1, <2>3 DEF IInv, Announcements, EventTypes, Refreshes
  <2>5. Caches' /\ UNCHANGED <<refCount, context>>
      BY <2>1 DEF IInv, Caches, CacheTypes, Counts, InList, Users, cacheVars
  <2>. QED BY <1>2, <2>4, <2>5 DEF IInv
<1>4. CASE q.source = source
  <2> DEFINE event(v) == Event(q.doc, ContextOf(q.doc, l)[1], ContextOf(q.doc, l)[2], v, l.misc, l.n > 1)
  <2>1. /\ UpdateCaches(q.doc, l)
        /\ Fire(event(FALSE))
        /\ timers' = timers \cup {[source |-> q.source, event |-> event(TRUE)]}
      BY <1>4 DEF Answer
  <2>2. /\ Caches'
        /\ \A k \in Keys : refCount[k] > 0 /\ refCount'[k] > 0 => context'[k] = context[k]
      BY <1>1, <2>1, UpdateCachesKeeps DEF IInv
  <2>3. /\ event(FALSE) \in Contexts /\ ~event(FALSE).verified
        /\ event(TRUE) \in Contexts /\ event(TRUE).doc = q.doc
    <3>1. (l.n > 1) \in BOOLEAN
        BY ListFacts
    <3>2. event(FALSE) \in Contexts /\ event(TRUE) \in Contexts
        BY <1>1, <2>2, <3>1, AnswerIsContext
    <3>. QED BY <3>2 DEF Event
  <2>. HIDE DEF event
  <2>4. /\ shown' \in Contexts /\ stats' \subseteq Docs \X Nat
        /\ notified' \subseteq Docs /\ toasts' \in [Docs -> Nat]
        /\ Warnings'
    <3>1. PICK e \in Contexts : e = event(FALSE) /\ ~e.verified
        BY <2>3
    <3>. QED BY <2>1, <3>1, FireKeeps DEF IInv, Announcements
  <2>5. timers = {} /\ timers' = {[source |-> source, event |-> event(TRUE)]}
      BY <1>4, <2>1 DEF IInv, Announcements, Refreshes
  <2>9. \A t, u \in timers' : t = u /\ t.source = source
    <3>1. [source |-> source, event |-> event(TRUE)].source = source
        OBVIOUS
    <3>2. PICK t : t = [source |-> source, event |-> event(TRUE)]
        OBVIOUS
    <3>3. timers' = {t} /\ t.source = source
        BY <2>5, <3>1, <3>2
    <3>. QED BY <3>3
  <2>6. EventTypes'
    <3>1. PICK e \in Contexts : e = event(TRUE) /\ e.doc \in Docs
        BY <1>1, <2>3
    <3>2. timers' = {[source |-> source, event |-> e]} /\ source \in Sources
        BY <1>1, <1>4, <2>5, <3>1
    <3>3. timers' \subseteq [source : Sources, event : Contexts] /\ \A t \in timers' : t.event.doc \in Docs
      <4>1. PICK t : t = [source |-> source, event |-> e]
          OBVIOUS
      <4>2. t \in [source : Sources, event : Contexts] /\ t.event = e
          BY <3>1, <3>2, <4>1
      <4>. QED BY <3>1, <3>2, <4>1, <4>2
    <3>. QED BY <1>1, <2>4, <3>3 DEF IInv, Announcements, EventTypes
  <2>7. \A r \in queries' : r.source # source
      BY <1>1, <1>4 DEF IInv, Announcements, Refreshes
  <2>8. Refreshes'
      BY <1>1, <2>7, <2>9 DEF IInv, Announcements, Refreshes
  <2>. QED BY <1>2, <2>2, <2>4, <2>6, <2>8 DEF IInv, Announcements
<1>. QED BY <1>3, <1>4

\* Five seconds later the one verification is announced.
LEMMA VerifyKeeps ==
    ASSUME IInv, NEW t \in timers, Verify(t)
    PROVE  IInv'
<1>1. /\ timers' = timers \ {t} /\ Fire(t.event) /\ MayVerify
      /\ UNCHANGED <<active, server, source, cacheVars, queries, commandVars>>
    BY DEF Verify
<1>2. CommandTypes' /\ Caches'
    BY <1>1 DEF IInv, CommandTypes, Caches, CacheTypes, Counts, InList, Users, cacheVars, commandVars
<1>3. PICK e \in Contexts : e = t.event /\ e.doc \in Docs
    BY DEF IInv, Announcements, EventTypes
<1>4. /\ shown' \in Contexts /\ stats' \subseteq Docs \X Nat
      /\ notified' \subseteq Docs /\ toasts' \in [Docs -> Nat]
      /\ Warnings'
    BY <1>1, <1>3, FireKeeps DEF IInv, Announcements
<1>5. Announcements'
    BY <1>1, <1>4 DEF IInv, Announcements, EventTypes, Refreshes
<1>. QED BY <1>2, <1>5 DEF IInv

\* The user's choice is announced at once, and the verification it was racing is
\* cleared.
LEMMA ChoiceKeeps ==
    ASSUME IInv, NEW p \in picks, NEW i \in 1 .. p.list.n, SetActiveFileContext(p, i)
    PROVE  IInv'
<1>1. p.doc \in Docs /\ p.list \in Lists
    BY DEF IInv, CommandTypes
<1>2. /\ p.list.key \in Keys /\ p.list.n \in Nat /\ p.list.misc \in BOOLEAN
      /\ i \in Nat /\ i > 0 /\ i <= p.list.n
    BY <1>1, ListFacts
<1>3. /\ picks' = picks \ {p} /\ timers' = {} /\ MayVerify
      /\ context' = [context EXCEPT ![p.list.key] = i]
      /\ Fire(Event(p.doc, p.list.key, i, TRUE, p.list.misc, TRUE))
      /\ UNCHANGED <<active, server, source, uriKey, refCount, queries, asked, commands>>
    BY DEF SetActiveFileContext
<1>4. CommandTypes'
    BY <1>3 DEF IInv, CommandTypes
<1>5. Caches'
  <2>1. CacheTypes' /\ Counts'
      BY <1>2, <1>3 DEF IInv, Caches, CacheTypes, Counts, Users
  <2>2. InList'
    <3> SUFFICES ASSUME ListOfKey, NEW m \in Lists
                 PROVE  context'[m.key] <= m.n
        BY DEF InList, ListOfKey
    <3>1. /\ m.key \in Keys /\ context[m.key] <= m.n
          /\ m.key = p.list.key => m.n = p.list.n
        BY <1>1, ListFacts DEF IInv, Caches, InList, ListOfKey
    <3>. QED BY <1>2, <1>3, <3>1 DEF IInv, Caches, CacheTypes
  <2>. QED BY <2>1, <2>2 DEF Caches
<1>6. PICK e \in Contexts : /\ e = Event(p.doc, p.list.key, i, TRUE, p.list.misc, TRUE)
                            /\ e.doc \in Docs
  <2>1. /\ Event(p.doc, p.list.key, i, TRUE, p.list.misc, TRUE) \in Contexts
        /\ Event(p.doc, p.list.key, i, TRUE, p.list.misc, TRUE).doc \in Docs
      BY <1>1, <1>2 DEF Event, Contexts
  <2>. QED BY <2>1
<1>7. /\ shown' \in Contexts /\ stats' \subseteq Docs \X Nat
      /\ notified' \subseteq Docs /\ toasts' \in [Docs -> Nat]
      /\ Warnings'
    BY <1>3, <1>6, FireKeeps DEF IInv, Announcements
<1>8. Announcements'
    BY <1>3, <1>7 DEF IInv, Announcements, EventTypes, Refreshes
<1>. QED BY <1>4, <1>5, <1>8 DEF IInv

\* The file is there, and its document is warned about for the first time; or it
\* is gone.
LEMMA StatReturnsKeeps ==
    ASSUME IInv, NEW s \in stats, NEW exists \in BOOLEAN, StatReturns(s, exists)
    PROVE  IInv'
<1>1. /\ stats' = stats \ {s}
      /\ UNCHANGED <<active, server, source, cacheVars, queries, commandVars, timers, shown>>
      /\ s[1] \in Docs
    BY DEF StatReturns, IInv, Announcements, EventTypes
<1>2. CommandTypes' /\ Caches'
    BY <1>1 DEF IInv, CommandTypes, Caches, CacheTypes, Counts, InList, Users, cacheVars, commandVars
<1>3. Refreshes'
    BY <1>1 DEF IInv, Announcements, Refreshes
<1>4. IsFiniteSet(stats')
    BY <1>1, FS_RemoveElement DEF IInv, Announcements, Warnings
<1>5. CASE exists
  <2>1. /\ notified' = notified \cup {s[1]}
        /\ toasts' = [toasts EXCEPT ![s[1]] = @ + 1]
      BY <1>5 DEF StatReturns
  <2>2. EventTypes'
      BY <1>1, <2>1 DEF IInv, Announcements, EventTypes
  <2>3. Warnings'
      BY <1>1, <1>4, <2>1 DEF IInv, Announcements, EventTypes, Warnings
  <2>. QED BY <1>2, <1>3, <2>2, <2>3 DEF IInv, Announcements
<1>6. CASE ~exists
    BY <1>1, <1>2, <1>3, <1>4, <1>6 DEF StatReturns, IInv, Announcements, EventTypes, Warnings
<1>. QED BY <1>5, <1>6

\* The events that make the service refresh: the editor, the server, its requests.
LEMMA TriggersKeep ==
    ASSUME IInv,
           \/ \E d \in Docs \cup {NoDoc} : ActiveEditorChanges(d)
           \/ RefreshRequest \/ ServerStarts \/ ProjectInitializationComplete
    PROVE  IInv' /\ UNCHANGED cacheVars
<1>1. ASSUME NEW d \in Docs \cup {NoDoc}, NEW isRunning \in BOOLEAN, Refresh(d, isRunning),
             active' \in Docs \cup {NoDoc}, server' \in {"stopped", "started", "complete"},
             UNCHANGED <<cacheVars, commandVars>>
      PROVE  IInv' /\ UNCHANGED cacheVars
  <2>1. Announcements'
      BY <1>1, RefreshKeeps DEF IInv
  <2>2. CommandTypes' /\ Caches'
      BY <1>1 DEF IInv, CommandTypes, Caches, CacheTypes, Counts, InList, Users, cacheVars, commandVars
  <2>. QED BY <1>1, <2>1, <2>2 DEF IInv
<1>2. active \in Docs \cup {NoDoc} /\ server \in {"stopped", "started", "complete"}
    BY DEF IInv, CommandTypes
<1>3. ASSUME NEW d \in Docs \cup {NoDoc}, ActiveEditorChanges(d)
      PROVE  IInv' /\ UNCHANGED cacheVars
  <2>1. PICK isRunning \in BOOLEAN : isRunning = (server # "stopped")
      OBVIOUS
  <2>2. Refresh(d, isRunning) /\ active' = d /\ UNCHANGED <<server, cacheVars, commandVars>>
      BY <1>3, <2>1 DEF ActiveEditorChanges
  <2>. QED BY <1>1, <1>2, <2>2
<1>4. CASE RefreshRequest
  <2>1. Refresh(active, TRUE) /\ UNCHANGED <<active, server, cacheVars, commandVars>>
      BY <1>4 DEF RefreshRequest
  <2>2. PICK d \in Docs \cup {NoDoc} : d = active
      BY <1>2
  <2>. QED BY <1>1, <1>2, <2>1, <2>2
<1>5. CASE ServerStarts
    BY <1>5 DEF ServerStarts, IInv, CommandTypes, Caches, CacheTypes, Counts, InList, Users,
                Announcements, EventTypes, Refreshes, Warnings, cacheVars, commandVars, notifierVars
<1>6. CASE ProjectInitializationComplete
  <2>1. /\ Refresh(active, TRUE) /\ server' = "complete"
        /\ UNCHANGED <<active, cacheVars, commandVars>>
      BY <1>6 DEF ProjectInitializationComplete
  <2>2. PICK d \in Docs \cup {NoDoc} : d = active
      BY <1>2
  <2>. QED BY <1>1, <1>2, <2>1, <2>2
<1>. QED BY <1>3, <1>4, <1>5, <1>6

\* The command asks, offers the answer, and may be dismissed.
LEMMA CommandKeeps ==
    ASSUME IInv,
           \/ \E d \in Docs : ChangeProjectContext(d)
           \/ \E a \in asked, l \in Lists : Offer(a, l)
           \/ \E p \in picks : Dismiss(p)
    PROVE  /\ IInv'
           /\ \A k \in Keys : refCount[k] > 0 /\ refCount'[k] > 0 => context'[k] = context[k]
<1>1. ASSUME UNCHANGED <<source, queries, timers, shown, notifierVars>>
      PROVE  Announcements'
    BY <1>1 DEF IInv, Announcements, EventTypes, Refreshes, Warnings, notifierVars
<1>2. ASSUME UNCHANGED cacheVars
      PROVE  Caches' /\ context' = context
    BY <1>2 DEF IInv, Caches, CacheTypes, Counts, InList, Users, cacheVars
<1>3. ASSUME NEW d \in Docs, ChangeProjectContext(d)
      PROVE  IInv' /\ context' = context
  <2>1. CommandTypes'
    <3>1. /\ commands < MaxCommands /\ commands' = commands + 1
          /\ asked' = asked \cup {<<d, commands'>>} /\ UNCHANGED <<active, server, picks>>
        BY <1>3 DEF ChangeProjectContext
    <3>2. commands' \in 0 .. MaxCommands /\ commands' \in 1 .. MaxCommands
        BY <3>1, Constants DEF IInv, CommandTypes
    <3>. QED BY <3>1, <3>2 DEF IInv, CommandTypes
  <2>2. /\ UNCHANGED <<source, queries, timers, shown, notifierVars>>
        /\ UNCHANGED cacheVars
      BY <1>3 DEF ChangeProjectContext
  <2>. QED BY <1>1, <1>2, <2>1, <2>2 DEF IInv
<1>4. ASSUME NEW a \in asked, NEW l \in Lists, Offer(a, l)
      PROVE  /\ IInv'
             /\ \A k \in Keys : refCount[k] > 0 /\ refCount'[k] > 0 => context'[k] = context[k]
  <2>1. /\ a[1] \in Docs /\ asked' = asked \ {a} /\ UpdateCaches(a[1], l)
        /\ picks' = picks \cup {[doc |-> a[1], list |-> l]}
        /\ UNCHANGED <<active, server, commands>>
        /\ UNCHANGED <<source, queries, timers, shown, notifierVars>>
      BY <1>4 DEF Offer, IInv, CommandTypes
  <2>2. CommandTypes'
      BY <2>1 DEF IInv, CommandTypes
  <2>3. /\ Caches'
        /\ \A k \in Keys : refCount[k] > 0 /\ refCount'[k] > 0 => context'[k] = context[k]
      BY <2>1, UpdateCachesKeeps DEF IInv
  <2>. QED BY <1>1, <2>1, <2>2, <2>3 DEF IInv
<1>5. ASSUME NEW p \in picks, Dismiss(p)
      PROVE  IInv' /\ context' = context
  <2>1. CommandTypes'
      BY <1>5 DEF Dismiss, IInv, CommandTypes
  <2>2. /\ UNCHANGED <<source, queries, timers, shown, notifierVars>>
        /\ UNCHANGED cacheVars
      BY <1>5 DEF Dismiss
  <2>. QED BY <1>1, <1>2, <2>1, <2>2 DEF IInv
<1>. QED BY <1>3, <1>4, <1>5

\* Every handler of the service, the command and the notifier keeps the invariant.
LEMMA NextIInv == IInv /\ [Next]_vars => IInv'
<1> SUFFICES ASSUME IInv, [Next]_vars PROVE IInv'
    OBVIOUS
<1>1. CASE \/ \E d \in Docs \cup {NoDoc} : ActiveEditorChanges(d)
           \/ RefreshRequest \/ ServerStarts \/ ProjectInitializationComplete
    BY <1>1, TriggersKeep
<1>2. CASE ServerStops
    BY <1>2, ServerStopsKeeps
<1>3. CASE \E q \in queries, l \in Lists : Answer(q, l)
    BY <1>3, AnswerKeeps
<1>4. CASE \E t \in timers : Verify(t)
    BY <1>4, VerifyKeeps
<1>5. CASE \/ \E d \in Docs : ChangeProjectContext(d)
           \/ \E a \in asked, l \in Lists : Offer(a, l)
           \/ \E p \in picks : Dismiss(p)
    BY <1>5, CommandKeeps
<1>6. CASE \E p \in picks : \E i \in 1 .. p.list.n : SetActiveFileContext(p, i)
    BY <1>6, ChoiceKeeps
<1>7. CASE \E s \in stats, exists \in BOOLEAN : StatReturns(s, exists)
    BY <1>7, StatReturnsKeeps
<1>8. CASE UNCHANGED vars
    BY <1>8 DEF vars, cacheVars, commandVars, notifierVars, IInv, CommandTypes, Caches, CacheTypes,
                Counts, InList, Users, Announcements, EventTypes, Refreshes, Warnings
<1>. QED BY <1>1, <1>2, <1>3, <1>4, <1>5, <1>6, <1>7, <1>8 DEF Next

\* The invariant holds in every behaviour.
THEOREM SpecIInv == Spec => []IInv
<1>1. Init => IInv
    BY InitIInv
<1>2. IInv /\ [Next]_vars => IInv'
    BY NextIInv
<1>. QED BY <1>1, <1>2, PTL DEF Spec

-----------------------------------------------------------------------------
\* The parts give every variable its type.
LEMMA IInvTypes == IInv => TypeOK
BY DEF IInv, CommandTypes, Caches, CacheTypes, Announcements, EventTypes, TypeOK

\* updateCaches keeps its maps together through any sequence of lists: the count of
\* a key is the number of documents mapped to it, and a key in use has a context, one of
\* its list where a key comes with one list; a key that no document uses may have a context
\* too (RefCountsExact).
THEOREM CountsCorrect == Spec => []RefCountsExact
<1>1. IInv => RefCountsExact
    BY IInvTypes DEF IInv, Caches, Counts, InList, Users, RefCountsExact
<1>. QED BY <1>1, SpecIInv, PTL

\* At most one verification is pending, and it is of the last refresh; where a file
\* system answers before the next verified event, a document is warned about once
\* (AnnouncedOnce).
THEOREM AnnouncedCorrect == Spec => []AnnouncedOnce
<1>1. ASSUME IInv PROVE AnnouncedOnce
  <2>1. Cardinality(timers) <= 1
    <3>1. CASE timers = {}
        BY <3>1, FS_EmptySet
    <3>2. CASE timers # {}
      <4>1. PICK t : t \in timers
          BY <3>2
      <4>2. timers = {t}
          BY <1>1, <4>1 DEF IInv, Announcements, Refreshes
      <4>3. Cardinality({t}) = 1
          BY FS_Singleton
      <4>. QED BY <4>2, <4>3
    <3>. QED BY <3>1, <3>2
  <2>2. \A t \in timers : t.source = source
      BY <1>1 DEF IInv, Announcements, Refreshes
  <2>3. NotifiedOnce
      BY <1>1 DEF IInv, Announcements, Warnings, NotifiedOnce
  <2>. QED BY <2>1, <2>2, <2>3 DEF AnnouncedOnce, PendingVerificationIsOfLastRefresh
<1>. QED BY <1>1, SpecIInv, PTL

\* No answer of the server changes the context of a key that documents use
\* (OnlyAChoiceChangesContext).
THEOREM ChoiceCorrect == Spec => OnlyAChoiceChangesContext
<1> DEFINE Kept == \A k \in Keys : refCount[k] > 0 /\ refCount'[k] > 0 /\ context'[k] # context[k]
                                    => picks' \subseteq picks /\ picks' # picks
<1>1. ASSUME IInv, Next PROVE Kept
  <2>1. CASE \/ \E d \in Docs \cup {NoDoc} : ActiveEditorChanges(d)
             \/ RefreshRequest \/ ServerStarts \/ ProjectInitializationComplete
    <3>1. context' = context
        BY <1>1, <2>1, TriggersKeep DEF cacheVars
    <3>. QED BY <3>1
  <2>2. CASE \/ ServerStops \/ \E t \in timers : Verify(t)
             \/ \E s \in stats, exists \in BOOLEAN : StatReturns(s, exists)
    <3>1. context' = context
        BY <2>2 DEF ServerStops, Verify, StatReturns, cacheVars
    <3>. QED BY <3>1
  <2>3. CASE \E q \in queries, l \in Lists : Answer(q, l)
    <3>1. \A k \in Keys : refCount[k] > 0 /\ refCount'[k] > 0 => context'[k] = context[k]
        BY <1>1, <2>3, AnswerKeeps
    <3>. QED BY <3>1
  <2>4. CASE \/ \E d \in Docs : ChangeProjectContext(d)
             \/ \E a \in asked, l \in Lists : Offer(a, l)
             \/ \E p \in picks : Dismiss(p)
    <3>1. \A k \in Keys : refCount[k] > 0 /\ refCount'[k] > 0 => context'[k] = context[k]
        BY <1>1, <2>4, CommandKeeps
    <3>. QED BY <3>1
  <2>5. CASE \E p \in picks : \E i \in 1 .. p.list.n : SetActiveFileContext(p, i)
    <3>1. PICK p \in picks : picks' = picks \ {p}
        BY <2>5 DEF SetActiveFileContext
    <3>2. picks' \subseteq picks /\ picks' # picks
        BY <3>1
    <3>. QED BY <3>2
  <2>. QED BY <1>1, <2>1, <2>2, <2>3, <2>4, <2>5 DEF Next
<1>2. ASSUME IInv, [Next]_vars PROVE [Kept]_vars
    BY <1>1, <1>2
<1>. QED BY <1>2, SpecIInv, PTL DEF Spec, OnlyAChoiceChangesContext

-----------------------------------------------------------------------------
(* The capture of logs.                                                      *)

Labels == {"idle", "preparing", "dumping"} \cup Levels!Capturing \cup Levels!Ended

LevelTypes ==
    /\ running \in BOOLEAN
    /\ outputVerbose \in BOOLEAN /\ traceVerbose \in BOOLEAN
    /\ serverVerbose \in BOOLEAN /\ clientVerbose \in BOOLEAN
    /\ traceUpdates \in Nat /\ changes \in 0 .. MaxChanges
    /\ logPc \in [Captures -> Labels]
    /\ logs \in [Captures -> SUBSET Levels!Kinds]
    /\ observers \subseteq Captures /\ restores \subseteq observers

\* A level that is not that of its channel is one that a capture raised, or is to be
\* updated; a capture that raised the levels goes on until it puts them back.
Raised ==
    /\ running /\ serverVerbose # outputVerbose =>
           \E c \in Captures : logPc[c] = "levels" \/ c \in restores
    /\ running /\ clientVerbose # traceVerbose => traceUpdates > 0 \/ restores # {}
    /\ \A c \in restores : logPc[c] \in Levels!Capturing \ {"levels"}

\* Observers are those of a command that records, or of another extension's capture.
Observed ==
    /\ Levels!ObserversEnd
    /\ \A c \in observers : logPc[c] \in Levels!Capturing =>
           Levels!Records(c) \/ (logs[c] = {} /\ logPc[c] \in {"levels", "held"})
    /\ \A c \in Captures : logPc[c] = "idle" => logs[c] = {}
    /\ \A c \in Captures : logPc[c] = "levels" => c \in observers

LevelInv == LevelTypes /\ Raised /\ Observed

FileTypes ==
    /\ dumps \in [Captures -> SUBSET Levels!File]
    /\ trace \in [Captures -> SUBSET Levels!File]
    /\ archive \in [Captures -> SUBSET Levels!File]
    /\ disk \subseteq Levels!File

\* The dumps of a command are its own and stay where they are until it has saved them.
OwnDumps ==
    \A c \in Captures : \A f \in dumps[c] :
        f.of = c /\ f.kind \in {"memory", "gc"} /\ (logPc[c] # "saved" => f \in disk)

\* A trace is made once: none that was removed appears again.
Unbegun == {"idle", "preparing", "levels", "before", "recording"}
MadeOnce ==
    /\ \A c \in Captures : \A f \in trace[c] : f.kind = "trace"
    /\ \A c \in Captures : logPc[c] \in Unbegun =>
           Levels!Trace(c) \notin disk /\ \A d \in Captures : Levels!Trace(c) \notin trace[d]

\* What an archive is made of and was not removed meanwhile is in it.
Zipped ==
    \A c \in Captures : logPc[c] = "zipping" =>
        dumps[c] \subseteq archive[c] /\ \A f \in trace[c] : f \in archive[c] \/ f \notin disk

FileInv == FileTypes /\ OwnDumps /\ MadeOnce /\ Zipped /\ Levels!CollectedIsArchived

LogInv == LevelInv /\ FileInv

\* A step of a command that leaves the levels and the captures alone.
Goes(c, l) ==
    /\ logPc' = [logPc EXCEPT ![c] = l]
    /\ UNCHANGED <<running, outputVerbose, traceVerbose, serverVerbose, clientVerbose,
                   traceUpdates, changes, logs, observers, restores>>

\* A command that neither waits for the levels nor ends a capture may go on.
LEMMA GoesKeepsLevels ==
    ASSUME LevelInv, NEW c \in Captures, NEW l \in Labels \ {"idle", "levels"}, Goes(c, l),
           logPc[c] # "levels",
           c \in observers => Levels!Records(c) /\ l \in Levels!Capturing
    PROVE  LevelInv'
<1> USE DEF LevelInv, Goes
<1>1. LevelTypes'
  BY DEF LevelTypes
<1>2. logPc'[c] = l /\ \A d \in Captures \ {c} : logPc'[d] = logPc[d]
  BY DEF LevelTypes
<1>3. Raised'
  <2>1. (running /\ serverVerbose # outputVerbose =>
            \E d \in Captures : logPc[d] = "levels" \/ d \in restores)'
    <3> SUFFICES ASSUME running, serverVerbose # outputVerbose
                 PROVE  \E d \in Captures : logPc'[d] = "levels" \/ d \in restores
      OBVIOUS
    <3>1. PICK d \in Captures : logPc[d] = "levels" \/ d \in restores
      BY DEF Raised
    <3> QED
      BY <3>1, <1>2
  <2>2. (running /\ clientVerbose # traceVerbose => traceUpdates > 0 \/ restores # {})'
    BY DEF Raised
  <2>3. (\A d \in restores : logPc[d] \in Levels!Capturing \ {"levels"})'
    BY <1>2 DEF Raised, LevelTypes
  <2> QED
    BY <2>1, <2>2, <2>3 DEF Raised
<1>4. Observed'
  <2>1. Levels!ObserversEnd'
    BY <1>2 DEF Observed, Levels!ObserversEnd, LevelTypes
  <2>2. (\A d \in observers : logPc[d] \in Levels!Capturing =>
            Levels!Records(d) \/ (logs[d] = {} /\ logPc[d] \in {"levels", "held"}))'
    BY <1>2 DEF Observed, Levels!Records, LevelTypes
  <2>3. (\A d \in Captures : logPc[d] = "idle" => logs[d] = {})'
    BY <1>2 DEF Observed
  <2>4. (\A d \in Captures : logPc[d] = "levels" => d \in observers)'
    BY <1>2 DEF Observed
  <2> QED
    BY <2>1, <2>2, <2>3, <2>4 DEF Observed
<1> QED
  BY <1>1, <1>3, <1>4

\* A command whose files stay may go on, if it neither saves nor begins to.
LEMMA GoesKeepsFiles ==
    ASSUME LevelTypes, FileInv, NEW c \in Captures, NEW l \in Labels \ {"saved", "zipping"},
           logPc' = [logPc EXCEPT ![c] = l], UNCHANGED <<dumps, trace, archive, disk>>,
           l \in Unbegun => logPc[c] \in Unbegun, logPc[c] # "saved"
    PROVE  FileInv'
<1> USE DEF FileInv
<1>1. FileTypes'
  BY DEF FileTypes
<1>2. logPc'[c] = l /\ \A d \in Captures \ {c} : logPc'[d] = logPc[d]
  BY DEF LevelTypes
<1>3. OwnDumps'
  BY <1>2 DEF OwnDumps
<1>4. MadeOnce'
  BY <1>2 DEF MadeOnce, Levels!Trace, Levels!Dump
<1>5. Zipped'
  BY <1>2 DEF Zipped
<1>6. Levels!CollectedIsArchived'
  BY <1>2 DEF Levels!CollectedIsArchived, Levels!Removed
<1> QED
  BY <1>1, <1>3, <1>4, <1>5, <1>6

\* Nothing of the files is about the levels.
LEMMA SameFiles ==
    ASSUME FileInv, UNCHANGED <<logPc, dumps, trace, archive, disk>>
    PROVE  FileInv'
BY DEF FileInv, FileTypes, OwnDumps, MadeOnce, Zipped, Levels!CollectedIsArchived, Levels!Removed,
       Levels!Trace, Levels!Dump

\* A change of a level is told to who has to know, or an update will tell it.
LEMMA ChangesKeepLevels ==
    ASSUME LevelInv, LevelTypes', UNCHANGED <<logPc, logs, observers, restores>>,
           (running /\ serverVerbose = outputVerbose)' \/ ~running'
               \/ UNCHANGED <<running, outputVerbose, serverVerbose>>,
           (running /\ clientVerbose = traceVerbose)' \/ ~running' \/ traceUpdates' > 0
               \/ UNCHANGED <<running, traceVerbose, clientVerbose, traceUpdates>>
    PROVE  LevelInv'
<1>1. Observed'
  BY DEF LevelInv, Observed, Levels!ObserversEnd, Levels!Records
<1>2. Raised'
  BY DEF LevelInv, Raised
<1> QED
  BY <1>1, <1>2 DEF LevelInv

\* The steps of the server and of the channels.
LEMMA LevelStepsKeep ==
    ASSUME ServicesAssumption, LogInv,
           \/ Levels!ServerStarts \/ Levels!ServerStops \/ Levels!OutputLevelChanges
           \/ Levels!TraceLevelChanges \/ Levels!UpdateTraceLevel
    PROVE  LogInv'
<1> USE DEF Levels!files, Levels!captures, Levels!levels
<1>0. MaxChanges \in Nat
  BY DEF ServicesAssumption
<1>1. UNCHANGED <<logPc, logs, observers, restores, dumps, trace, archive, disk>>
  BY DEF Levels!ServerStarts, Levels!ServerStops, Levels!OutputLevelChanges,
         Levels!TraceLevelChanges, Levels!UpdateTraceLevel
<1>2. LevelTypes
  BY DEF LogInv, LevelInv
<1>3. LevelInv'
  <2>1. CASE Levels!ServerStarts
    <3>1. running' /\ serverVerbose' = outputVerbose /\ traceUpdates' = traceUpdates + 1
      BY <2>1 DEF Levels!ServerStarts, Levels!UpdateLevels
    <3>2. LevelTypes'
      BY <1>1, <1>2, <2>1, <3>1 DEF Levels!ServerStarts, LevelTypes
    <3>3. outputVerbose' = outputVerbose /\ traceUpdates' > 0
      BY <1>2, <2>1, <3>1 DEF Levels!ServerStarts, LevelTypes
    <3> QED
      BY <1>1, <3>1, <3>2, <3>3, ChangesKeepLevels DEF LogInv
  <2>2. CASE Levels!ServerStops
    <3>0. changes' \in 0 .. MaxChanges
      BY <1>0, <1>2, <2>2 DEF Levels!ServerStops, LevelTypes
    <3>1. LevelTypes'
      <4>1. running' \in BOOLEAN
        BY <2>2 DEF Levels!ServerStops
      <4> QED
        BY <1>1, <1>2, <2>2, <3>0, <4>1 DEF Levels!ServerStops, LevelTypes
    <3>2. ~running'
      BY <2>2 DEF Levels!ServerStops
    <3> QED
      BY <1>1, <3>1, <3>2, ChangesKeepLevels DEF LogInv
  <2>3. CASE Levels!OutputLevelChanges
    <3>0. changes' \in 0 .. MaxChanges
      BY <1>0, <1>2, <2>3 DEF Levels!OutputLevelChanges, LevelTypes
    <3>1. LevelTypes'
      <4>1. outputVerbose' \in BOOLEAN /\ serverVerbose' \in BOOLEAN
        BY <1>2, <2>3 DEF Levels!OutputLevelChanges, LevelTypes
      <4> QED
        BY <1>1, <1>2, <2>3, <3>0, <4>1 DEF Levels!OutputLevelChanges, LevelTypes
    <3>2. UNCHANGED <<running, traceVerbose, clientVerbose, traceUpdates>>
      BY <2>3 DEF Levels!OutputLevelChanges
    <3>3. (running /\ serverVerbose = outputVerbose)' \/ ~running'
      BY <2>3 DEF Levels!OutputLevelChanges
    <3> QED
      BY <1>1, <3>1, <3>2, <3>3, ChangesKeepLevels DEF LogInv
  <2>4. CASE Levels!TraceLevelChanges
    <3>1. traceUpdates' = traceUpdates + 1 /\ UNCHANGED <<running, outputVerbose, serverVerbose>>
      BY <2>4 DEF Levels!TraceLevelChanges
    <3>2. LevelTypes'
      BY <1>0, <1>1, <1>2, <2>4, <3>1 DEF Levels!TraceLevelChanges, LevelTypes
    <3>3. traceUpdates' > 0
      BY <1>2, <3>1 DEF LevelTypes
    <3> QED
      BY <1>1, <3>1, <3>2, <3>3, ChangesKeepLevels DEF LogInv
  <2>5. CASE Levels!UpdateTraceLevel
    <3>1. LevelTypes'
      BY <1>1, <1>2, <2>5 DEF Levels!UpdateTraceLevel, LevelTypes
    <3>2. UNCHANGED <<running, outputVerbose, serverVerbose>>
      BY <2>5 DEF Levels!UpdateTraceLevel
    <3>3. (running /\ clientVerbose = traceVerbose)' \/ ~running'
      BY <2>5 DEF Levels!UpdateTraceLevel
    <3> QED
      BY <1>1, <3>1, <3>2, <3>3, ChangesKeepLevels DEF LogInv
  <2> QED
    BY <2>1, <2>2, <2>3, <2>4, <2>5
<1> QED
  BY <1>1, <1>3, SameFiles DEF LogInv

\* A capture begins with its observers, and waits for the levels of a running server.
LEMMA CreateCaptureKeepsLevels ==
    ASSUME LevelInv, NEW c \in Captures, NEW then \in {"before", "held"},
           Levels!CreateCapture(c, then), UNCHANGED logs, logPc[c] \in {"idle", "preparing"},
           Levels!Records(c) \/ (logs[c] = {} /\ then = "held")
    PROVE  LevelInv'
<1> USE DEF LevelInv
<1>1. PICK l \in {"levels", then} :
          /\ logPc' = [logPc EXCEPT ![c] = l]
          /\ \/ running /\ l = "levels" /\ serverVerbose' = TRUE
             \/ ~running /\ l = then /\ serverVerbose' = serverVerbose
  BY DEF Levels!CreateCapture, Levels!Goto
<1>2. /\ observers' = observers \cup {c}
      /\ UNCHANGED <<running, outputVerbose, traceVerbose, clientVerbose, traceUpdates, changes, restores>>
  BY DEF Levels!CreateCapture
<1>3. logPc'[c] = l /\ \A d \in Captures \ {c} : logPc'[d] = logPc[d]
  BY <1>1 DEF LevelTypes
<1>4. l \in Labels /\ l \in Levels!Capturing
  BY DEF Labels, Levels!Capturing
<1>5. LevelTypes'
  BY <1>1, <1>2, <1>4 DEF LevelTypes
<1>6. Raised'
  <2>1. (running /\ serverVerbose # outputVerbose =>
            \E d \in Captures : logPc[d] = "levels" \/ d \in restores)'
    BY <1>1, <1>2, <1>3
  <2>2. (running /\ clientVerbose # traceVerbose => traceUpdates > 0 \/ restores # {})'
    BY <1>2 DEF Raised
  <2>3. c \notin restores
    BY DEF Raised, Levels!Capturing
  <2>4. (\A d \in restores : logPc[d] \in Levels!Capturing \ {"levels"})'
    BY <1>2, <1>3, <2>3 DEF Raised, LevelTypes
  <2> QED
    BY <2>1, <2>2, <2>4 DEF Raised
<1>7. Observed'
  <2>1. Levels!ObserversEnd'
    BY <1>2, <1>3, <1>4 DEF Observed, Levels!ObserversEnd, LevelTypes
  <2>2. (\A d \in observers : logPc[d] \in Levels!Capturing =>
            Levels!Records(d) \/ (logs[d] = {} /\ logPc[d] \in {"levels", "held"}))'
    BY <1>2, <1>3 DEF Observed, Levels!Records, LevelTypes
  <2>3. (\A d \in Captures : logPc[d] = "idle" => logs[d] = {})'
    BY <1>3 DEF Observed
  <2>4. (\A d \in Captures : logPc[d] = "levels" => d \in observers)'
    BY <1>2, <1>3 DEF Observed
  <2> QED
    BY <2>1, <2>2, <2>3, <2>4 DEF Observed
<1> QED
  BY <1>5, <1>6, <1>7

\* The notification was sent, or the server has gone.
LEMMA LevelsRaisedKeeps ==
    ASSUME LevelInv, NEW c \in Captures, Levels!LevelsRaised(c)
    PROVE  LevelInv'
<1> USE DEF LevelInv
<1>1. PICK l : l = Levels!AfterLevels(c)
  OBVIOUS
<1>2. l = IF logs[c] = {} THEN "held" ELSE "before"
  BY <1>1 DEF Levels!AfterLevels
<1>3. /\ logPc[c] = "levels" /\ logPc' = [logPc EXCEPT ![c] = l]
      /\ clientVerbose' = TRUE /\ restores' = restores \cup {c}
      /\ UNCHANGED <<running, outputVerbose, traceVerbose, serverVerbose, traceUpdates, changes,
                     logs, observers>>
  BY <1>1 DEF Levels!LevelsRaised, Levels!Goto
<1>4. logPc'[c] = l /\ \A d \in Captures \ {c} : logPc'[d] = logPc[d]
  BY <1>3 DEF LevelTypes
<1>5. l \in Labels /\ l \in Levels!Capturing /\ l # "levels"
  BY <1>2 DEF Labels, Levels!Capturing
<1>6. LevelTypes'
  BY <1>3, <1>5 DEF LevelTypes, Observed
<1>7. Raised'
  <2>1. (running /\ serverVerbose # outputVerbose =>
            \E d \in Captures : logPc[d] = "levels" \/ d \in restores)'
    BY <1>3
  <2>2. (\A d \in restores : logPc[d] \in Levels!Capturing \ {"levels"})'
    BY <1>3, <1>4, <1>5 DEF Raised, LevelTypes
  <2> QED
    BY <1>3, <2>1, <2>2 DEF Raised
<1>8. Observed'
  <2>1. Levels!ObserversEnd'
    BY <1>3, <1>4, <1>5 DEF Observed, Levels!ObserversEnd, LevelTypes
  <2>2. (\A d \in observers : logPc[d] \in Levels!Capturing =>
            Levels!Records(d) \/ (logs[d] = {} /\ logPc[d] \in {"levels", "held"}))'
    <3>1. Levels!Records(c)' \/ (logs'[c] = {} /\ logPc'[c] \in {"levels", "held"})
      BY <1>2, <1>3, <1>4 DEF Observed, Levels!Records, Levels!Capturing
    <3>2. ASSUME NEW d \in observers, d # c, logPc'[d] \in Levels!Capturing
          PROVE  Levels!Records(d)' \/ (logs'[d] = {} /\ logPc'[d] \in {"levels", "held"})
      BY <1>3, <1>4, <3>2 DEF Observed, Levels!Records, LevelTypes
    <3> QED
      BY <1>3, <3>1, <3>2
  <2>3. (\A d \in Captures : logPc[d] = "idle" => logs[d] = {})'
    BY <1>2, <1>3, <1>4 DEF Observed
  <2>4. (\A d \in Captures : logPc[d] = "levels" => d \in observers)'
    BY <1>3, <1>4, <1>5 DEF Observed
  <2> QED
    BY <2>1, <2>2, <2>3, <2>4 DEF Observed
<1> QED
  BY <1>6, <1>7, <1>8

\* The server has gone: the capture fails and leaves its observers.
LEMMA LevelsNotRaisedKeeps ==
    ASSUME LevelInv, NEW c \in Captures, Levels!LevelsNotRaised(c)
    PROVE  LevelInv'
<1> USE DEF LevelInv
<1>1. /\ logPc[c] = "levels" /\ ~running /\ logPc' = [logPc EXCEPT ![c] = "failed"]
      /\ UNCHANGED <<running, outputVerbose, traceVerbose, serverVerbose, clientVerbose,
                     traceUpdates, changes, logs, observers, restores>>
  BY DEF Levels!LevelsNotRaised, Levels!Goto, Levels!levels, Levels!captures
<1>2. logPc'[c] = "failed" /\ \A d \in Captures \ {c} : logPc'[d] = logPc[d]
  BY <1>1 DEF LevelTypes
<1>3. "failed" \in Labels /\ "failed" \notin Levels!Capturing
  BY DEF Labels, Levels!Capturing, Levels!Ended
<1>4. c \notin restores
  BY <1>1 DEF Raised
<1>5. LevelTypes'
  BY <1>1, <1>3 DEF LevelTypes
<1>6. Raised'
  BY <1>1, <1>2, <1>4 DEF Raised, LevelTypes
<1>7. Observed'
  <2>1. Levels!ObserversEnd'
    BY <1>1, <1>2, <1>4 DEF Observed, Levels!ObserversEnd, LevelTypes
  <2>2. (\A d \in observers : logPc[d] \in Levels!Capturing =>
            Levels!Records(d) \/ (logs[d] = {} /\ logPc[d] \in {"levels", "held"}))'
    BY <1>1, <1>2, <1>3 DEF Observed, Levels!Records, LevelTypes
  <2>3. (\A d \in Captures : logPc[d] = "idle" => logs[d] = {})'
    BY <1>1, <1>2 DEF Observed
  <2>4. (\A d \in Captures : logPc[d] = "levels" => d \in observers)'
    BY <1>1, <1>2 DEF Observed
  <2> QED
    BY <2>1, <2>2, <2>3, <2>4 DEF Observed
<1> QED
  BY <1>5, <1>6, <1>7

\* The end of a capture puts the levels back, if it had raised them.
LEMMA DisposeKeepsLevels ==
    ASSUME LevelInv, NEW c \in Captures, NEW l \in Levels!Ended, Levels!Dispose(c),
           logPc' = [logPc EXCEPT ![c] = l], UNCHANGED logs, logPc[c] # "levels"
    PROVE  LevelInv'
<1> USE DEF LevelInv
<1>1. /\ observers' = observers \ {c} /\ restores' = restores \ {c}
      /\ UNCHANGED <<running, outputVerbose, traceVerbose, clientVerbose, changes>>
      /\ \/ /\ c \in restores
            /\ serverVerbose' = IF running THEN outputVerbose ELSE serverVerbose
            /\ traceUpdates' = traceUpdates + 1
         \/ c \notin restores /\ UNCHANGED <<serverVerbose, traceUpdates>>
  BY DEF Levels!Dispose, Levels!UpdateLevels
<1>2. logPc'[c] = l /\ \A d \in Captures \ {c} : logPc'[d] = logPc[d]
  BY DEF LevelTypes
<1>3. l \in Labels /\ l \notin Levels!Capturing /\ l \notin {"idle", "levels"}
  BY DEF Labels, Levels!Capturing, Levels!Ended
<1>4. LevelTypes'
  BY <1>1, <1>3 DEF LevelTypes
<1>5. Raised'
  <2>1. (running /\ serverVerbose # outputVerbose =>
            \E d \in Captures : logPc[d] = "levels" \/ d \in restores)'
    <3>1. CASE c \in restores
      BY <1>1, <3>1
    <3>2. CASE c \notin restores
      <4> SUFFICES ASSUME running, serverVerbose # outputVerbose
                   PROVE  \E d \in Captures : logPc'[d] = "levels" \/ d \in restores'
        BY <1>1, <3>2
      <4>1. PICK d \in Captures : logPc[d] = "levels" \/ d \in restores
        BY DEF Raised
      <4> QED
        BY <1>1, <1>2, <3>2, <4>1
    <3> QED
      BY <3>1, <3>2
  <2>2. (running /\ clientVerbose # traceVerbose => traceUpdates > 0 \/ restores # {})'
    <3>1. CASE c \in restores
      <4>1. traceUpdates' > 0
        BY <1>1, <3>1 DEF LevelTypes
      <4> QED
        BY <4>1
    <3>2. CASE c \notin restores
      BY <1>1, <3>2 DEF Raised
    <3> QED
      BY <3>1, <3>2
  <2>3. (\A d \in restores : logPc[d] \in Levels!Capturing \ {"levels"})'
    BY <1>1, <1>2 DEF Raised, LevelTypes
  <2> QED
    BY <2>1, <2>2, <2>3 DEF Raised
<1>6. Observed'
  <2>1. Levels!ObserversEnd'
    BY <1>1, <1>2 DEF Observed, Levels!ObserversEnd, LevelTypes
  <2>2. (\A d \in observers : logPc[d] \in Levels!Capturing =>
            Levels!Records(d) \/ (logs[d] = {} /\ logPc[d] \in {"levels", "held"}))'
    BY <1>1, <1>2 DEF Observed, Levels!Records, LevelTypes
  <2>3. (\A d \in Captures : logPc[d] = "idle" => logs[d] = {})'
    BY <1>2, <1>3 DEF Observed
  <2>4. (\A d \in Captures : logPc[d] = "levels" => d \in observers)'
    BY <1>1, <1>2, <1>3 DEF Observed
  <2> QED
    BY <2>1, <2>2, <2>3, <2>4 DEF Observed
<1> QED
  BY <1>4, <1>5, <1>6

\* What is selected is collected by a command that observes nothing yet.
LEMMA SelectLogsKeeps ==
    ASSUME LogInv, NEW c \in Captures, NEW selected \in SUBSET Levels!Kinds,
           Levels!SelectLogs(c, selected)
    PROVE  LogInv'
<1> USE DEF LogInv
<1>1. PICK l \in {"cancelled", "preparing"} : logPc' = [logPc EXCEPT ![c] = l]
  BY DEF Levels!SelectLogs, Levels!Goto
<1>2. /\ logPc[c] = "idle" /\ logs' = [logs EXCEPT ![c] = selected]
      /\ UNCHANGED <<running, outputVerbose, traceVerbose, serverVerbose, clientVerbose,
                     traceUpdates, changes, observers, restores, dumps, trace, archive, disk>>
  BY DEF Levels!SelectLogs, Levels!levels, Levels!captures, Levels!files
<1>3. l \in Labels /\ l \notin Levels!Capturing /\ l \notin {"idle", "levels", "saved", "zipping"}
  BY DEF Labels, Levels!Capturing, Levels!Ended
<1>4. LevelTypes /\ Raised /\ Observed
  BY DEF LevelInv
<1>5. /\ logPc'[c] = l /\ \A d \in Captures \ {c} : logPc'[d] = logPc[d]
      /\ \A d \in Captures \ {c} : logs'[d] = logs[d]
  BY <1>1, <1>2, <1>4 DEF LevelTypes
<1>6. c \notin observers /\ c \notin restores
  BY <1>2, <1>4 DEF LevelTypes, Observed, Levels!ObserversEnd, Levels!Capturing
<1>7. LevelInv'
  <2>1. LevelTypes'
    BY <1>1, <1>2, <1>3, <1>4 DEF LevelTypes
  <2>2. Raised'
    <3>1. (running /\ serverVerbose # outputVerbose =>
              \E d \in Captures : logPc[d] = "levels" \/ d \in restores)'
      <4> SUFFICES ASSUME running, serverVerbose # outputVerbose
                   PROVE  \E d \in Captures : logPc'[d] = "levels" \/ d \in restores
        BY <1>2
      <4>1. PICK d \in Captures : logPc[d] = "levels" \/ d \in restores
        BY <1>4 DEF Raised
      <4> QED
        BY <1>2, <1>5, <1>6, <4>1
    <3>2. (\A d \in restores : logPc[d] \in Levels!Capturing \ {"levels"})'
      BY <1>2, <1>4, <1>5, <1>6 DEF Raised, LevelTypes
    <3>3. (running /\ clientVerbose # traceVerbose => traceUpdates > 0 \/ restores # {})'
      BY <1>2, <1>4 DEF Raised
    <3> QED
      BY <3>1, <3>2, <3>3 DEF Raised
  <2>3. Observed'
    <3>1. Levels!ObserversEnd'
      BY <1>2, <1>4, <1>5, <1>6 DEF Observed, Levels!ObserversEnd, LevelTypes
    <3>2. (\A d \in observers : logPc[d] \in Levels!Capturing =>
              Levels!Records(d) \/ (logs[d] = {} /\ logPc[d] \in {"levels", "held"}))'
      BY <1>2, <1>4, <1>5, <1>6 DEF Observed, Levels!Records, LevelTypes
    <3>3. (\A d \in Captures : logPc[d] = "idle" => logs[d] = {})'
      BY <1>3, <1>4, <1>5 DEF Observed
    <3>4. (\A d \in Captures : logPc[d] = "levels" => d \in observers)'
      BY <1>2, <1>3, <1>4, <1>5 DEF Observed
    <3> QED
      BY <3>1, <3>2, <3>3, <3>4 DEF Observed
  <2> QED
    BY <2>1, <2>2, <2>3 DEF LevelInv
<1>8. FileInv'
  <2>1. logPc[c] \in Unbegun /\ logPc[c] # "saved"
    BY <1>2 DEF Unbegun
  <2> QED
    BY <1>1, <1>2, <1>3, <1>4, <2>1, GoesKeepsFiles
<1> QED
  BY <1>7, <1>8

\* The capture of another extension.
LEMMA CaptureKeeps ==
    ASSUME LogInv, NEW c \in Captures,
           Levels!CaptureActivityLogs(c) \/ Levels!DisposeCapture(c)
    PROVE  LogInv'
<1> USE DEF LogInv, Levels!files
<1>1. LevelTypes /\ Observed
  BY DEF LevelInv
<1>2. CASE Levels!CaptureActivityLogs(c)
  <2>1. /\ logPc[c] = "idle" /\ logs[c] = {} /\ Levels!CreateCapture(c, "held")
        /\ UNCHANGED <<logs, dumps, trace, archive, disk>>
    BY <1>1, <1>2 DEF Levels!CaptureActivityLogs, Observed
  <2>2. LevelInv'
    BY <2>1, CreateCaptureKeepsLevels
  <2>3. PICK l \in {"levels", "held"} : logPc' = [logPc EXCEPT ![c] = l]
    BY <2>1 DEF Levels!CreateCapture, Levels!Goto
  <2>4. l \in Labels \ {"saved", "zipping"} /\ logPc[c] \in Unbegun /\ logPc[c] # "saved"
    BY <2>1 DEF Labels, Levels!Capturing, Unbegun
  <2>5. FileInv'
    BY <1>1, <2>1, <2>3, <2>4, GoesKeepsFiles
  <2> QED
    BY <2>2, <2>5
<1>3. CASE Levels!DisposeCapture(c)
  <2>1. /\ logPc[c] = "held" /\ Levels!Dispose(c) /\ logPc' = [logPc EXCEPT ![c] = "disposed"]
        /\ UNCHANGED <<logs, dumps, trace, archive, disk>>
    BY <1>3 DEF Levels!DisposeCapture, Levels!Goto
  <2>2. "disposed" \in Levels!Ended /\ "disposed" \in Labels \ {"saved", "zipping"}
        /\ "disposed" \notin Unbegun
    BY DEF Levels!Ended, Labels, Unbegun
  <2>3. LevelInv'
    BY <2>1, <2>2, DisposeKeepsLevels
  <2>4. FileInv'
    BY <1>1, <2>1, <2>2, GoesKeepsFiles
  <2> QED
    BY <2>3, <2>4
<1> QED
  BY <1>2, <1>3

\* A command gets ready, and starts its capture or has none to start.
LEMMA PrepareKeeps ==
    ASSUME LogInv, NEW c \in Captures, Levels!Cancelled(c) \/ Levels!ChooseSaveLocation(c)
    PROVE  LogInv'
<1> USE DEF LogInv, Levels!files, Levels!levels, Levels!captures
<1>1. LevelTypes /\ Observed
  BY DEF LevelInv
<1>2. logPc[c] = "preparing" /\ UNCHANGED <<logs, dumps, trace, archive, disk>>
  BY DEF Levels!Cancelled, Levels!ChooseSaveLocation
<1>3. logPc[c] \in Unbegun /\ logPc[c] \notin {"saved", "levels"} /\ c \notin observers
  BY <1>1, <1>2 DEF Unbegun, Observed, Levels!ObserversEnd, Levels!Capturing
<1>4. CASE Levels!ChooseSaveLocation(c) /\ Levels!Records(c)
  <2>1. Levels!CreateCapture(c, "before")
    BY <1>4 DEF Levels!ChooseSaveLocation
  <2>2. PICK l \in {"levels", "before"} : logPc' = [logPc EXCEPT ![c] = l]
    BY <2>1 DEF Levels!CreateCapture, Levels!Goto
  <2>3. l \in Labels \ {"saved", "zipping"}
    BY DEF Labels, Levels!Capturing
  <2>4. LevelInv'
    BY <1>2, <1>4, <2>1, CreateCaptureKeepsLevels
  <2>5. FileInv'
    BY <1>1, <1>2, <1>3, <2>2, <2>3, GoesKeepsFiles
  <2> QED
    BY <2>4, <2>5
<1>5. CASE ~(Levels!ChooseSaveLocation(c) /\ Levels!Records(c))
  <2>1. PICK l \in {"cancelled", "dumping"} : logPc' = [logPc EXCEPT ![c] = l] /\ Goes(c, l)
    BY <1>2, <1>5 DEF Levels!Cancelled, Levels!ChooseSaveLocation, Levels!Goto, Goes
  <2>2. l \in Labels \ {"idle", "levels", "saved", "zipping"} /\ l \notin Unbegun
    BY DEF Labels, Levels!Ended, Unbegun
  <2>3. LevelInv'
    BY <1>3, <2>1, <2>2, GoesKeepsLevels
  <2>4. FileInv'
    BY <1>1, <1>2, <1>3, <2>1, <2>2, GoesKeepsFiles
  <2> QED
    BY <2>3, <2>4
<1> QED
  BY <1>4, <1>5

\* The capture begins for a command, or fails.
LEMMA LevelsAnsweredKeeps ==
    ASSUME LogInv, NEW c \in Captures, Levels!LevelsRaised(c) \/ Levels!LevelsNotRaised(c)
    PROVE  LogInv'
<1> USE DEF LogInv, Levels!files
<1>1. LevelTypes
  BY DEF LevelInv
<1>2. LevelInv'
  BY LevelsRaisedKeeps, LevelsNotRaisedKeeps
<1>3. PICK l \in {"held", "before", "failed"} : logPc' = [logPc EXCEPT ![c] = l]
  BY DEF Levels!LevelsRaised, Levels!LevelsNotRaised, Levels!AfterLevels, Levels!Goto
<1>4. logPc[c] = "levels" /\ UNCHANGED <<dumps, trace, archive, disk>>
  BY DEF Levels!LevelsRaised, Levels!LevelsNotRaised
<1>5. l \in Labels \ {"saved", "zipping"} /\ logPc[c] \in Unbegun /\ logPc[c] # "saved"
  BY <1>4 DEF Labels, Levels!Capturing, Levels!Ended, Unbegun
<1>6. FileInv'
  BY <1>1, <1>3, <1>4, <1>5, GoesKeepsFiles
<1> QED
  BY <1>2, <1>6

\* Only a command that records has observers once it goes about its dumps and files.
LEMMA ObserversRecord ==
    ASSUME LevelInv, NEW c \in observers,
           logPc[c] \in {"before", "recording", "tracing", "after", "dumping", "reading", "zipping"}
    PROVE  Levels!Records(c) /\ logPc[c] # "dumping"
<1>1. logPc[c] # "dumping"
  BY DEF LevelInv, Observed, Levels!ObserversEnd, Levels!Capturing
<1>2. logPc[c] \in Levels!Capturing
  BY <1>1 DEF Levels!Capturing
<1> QED
  BY <1>1, <1>2 DEF LevelInv, Observed

\* What a dump is.
LEMMA DumpFacts ==
    ASSUME LevelTypes, NEW c \in Captures, NEW moment \in Levels!Moments,
           NEW f \in Levels!DumpsOf(c, moment)
    PROVE  f \in Levels!File /\ f.of = c /\ f.kind \in {"memory", "gc"}
BY DEF LevelTypes, Levels!DumpsOf, Levels!Dump, Levels!File, Levels!Kinds

\* The dumps that a command takes are new or its own.
LEMMA CollectKeepsFiles ==
    ASSUME LevelTypes, FileInv, NEW c \in Captures, NEW l \in Labels \ {"saved", "zipping"},
           logPc' = [logPc EXCEPT ![c] = l], NEW moment \in Levels!Moments,
           Levels!CollectDumps(c, moment), logPc[c] # "saved",
           l \in Unbegun => logPc[c] \in Unbegun
    PROVE  FileInv'
<1>1. PICK written \in SUBSET Levels!DumpsOf(c, moment) : \E made \in SUBSET written :
          disk' = disk \cup written /\ dumps' = [dumps EXCEPT ![c] = @ \cup made]
  BY DEF Levels!CollectDumps
<1>2. PICK made \in SUBSET written : dumps' = [dumps EXCEPT ![c] = @ \cup made]
  BY <1>1
<1>3. disk' = disk \cup written /\ UNCHANGED <<trace, archive>>
  BY <1>1 DEF Levels!CollectDumps
<1>4. \A f \in written : f \in Levels!File /\ f.of = c /\ f.kind \in {"memory", "gc"}
  BY DumpFacts
<1> HIDE DEF Levels!File
<1>5. /\ logPc'[c] = l /\ \A d \in Captures \ {c} : logPc'[d] = logPc[d]
      /\ dumps'[c] = dumps[c] \cup made /\ \A d \in Captures \ {c} : dumps'[d] = dumps[d]
  BY <1>2 DEF LevelTypes, FileInv, FileTypes
<1>6. FileTypes'
  BY <1>2, <1>3, <1>4 DEF FileInv, FileTypes
<1>7. OwnDumps'
  BY <1>3, <1>4, <1>5 DEF FileInv, OwnDumps
<1>8. MadeOnce'
  <2>1. \A d \in Captures : Levels!Trace(d) \notin written
    BY <1>4 DEF Levels!Trace, Levels!Dump
  <2> QED
    BY <1>3, <1>5, <2>1 DEF FileInv, MadeOnce, Levels!Trace, Levels!Dump
<1>9. Zipped'
  BY <1>3, <1>4, <1>5 DEF FileInv, Zipped, MadeOnce
<1>10. Levels!CollectedIsArchived'
  <2>1. ASSUME NEW d \in Captures, logPc'[d] = "saved"
        PROVE  dumps'[d] \subseteq archive'[d] \ disk'
    <3>1. d # c /\ dumps'[d] = dumps[d] /\ dumps[d] \subseteq archive[d] \ disk
      BY <1>5, <2>1 DEF FileInv, Levels!CollectedIsArchived
    <3>2. \A f \in dumps[d] : f.of = d
      BY DEF FileInv, OwnDumps
    <3> QED
      BY <1>3, <1>4, <3>1, <3>2
  <2>2. ASSUME NEW d \in Captures, NEW f \in Levels!Removed(d)'
        PROVE  \E e \in Captures : f \in archive'[e] /\ logPc'[e] = "saved"
    <3>1. f \in Levels!Removed(d)
      BY <1>3, <1>5 DEF Levels!Removed
    <3>2. PICK e \in Captures : f \in archive[e] /\ logPc[e] = "saved"
      BY <3>1 DEF FileInv, Levels!CollectedIsArchived
    <3> QED
      BY <1>3, <1>5, <3>2
  <2> QED
    BY <2>1, <2>2 DEF Levels!CollectedIsArchived
<1> QED
  BY <1>6, <1>7, <1>8, <1>9, <1>10 DEF FileInv

\* The dumps of the three moments.
LEMMA DumpsKeep ==
    ASSUME LogInv, NEW c \in Captures,
           Levels!DumpsBefore(c) \/ Levels!DumpsAfter(c) \/ Levels!DumpsOnly(c)
    PROVE  LogInv'
<1> USE DEF LogInv
<1>1. PICK l \in {"recording", "reading"}, moment \in Levels!Moments :
          /\ Goes(c, l) /\ Levels!CollectDumps(c, moment)
          /\ l \in Unbegun => logPc[c] \in Unbegun
  BY DEF Levels!DumpsBefore, Levels!DumpsAfter, Levels!DumpsOnly, Levels!Moments, Levels!Goto,
         Goes, Levels!levels, Levels!captures, Unbegun
<1>2. logPc[c] \in {"before", "after", "dumping"}
  BY DEF Levels!DumpsBefore, Levels!DumpsAfter, Levels!DumpsOnly
<1>3. l \in Labels \ {"idle", "levels", "saved", "zipping"} /\ l \in Levels!Capturing
  BY DEF Labels, Levels!Capturing
<1>4. c \in observers => Levels!Records(c)
  BY <1>2, ObserversRecord
<1>5. LevelInv'
  BY <1>1, <1>2, <1>3, <1>4, GoesKeepsLevels
<1>6. FileInv'
  BY <1>1, <1>2, <1>3, CollectKeepsFiles DEF Goes, LevelInv
<1> QED
  BY <1>5, <1>6

\* A trace that begins is a new file, which no command can have found yet.
LEMMA TraceBeginsKeeps ==
    ASSUME LogInv, NEW c \in Captures, Levels!TraceBegins(c)
    PROVE  LogInv'
<1> USE DEF LogInv
<1>1. /\ logPc[c] = "recording" /\ Goes(c, "tracing")
      /\ disk' = disk \cup {Levels!Trace(c)} /\ UNCHANGED <<dumps, trace, archive>>
  BY DEF Levels!TraceBegins, Levels!Goto, Goes, Levels!levels, Levels!captures
<1>2. "tracing" \in Labels \ {"idle", "levels"} /\ "tracing" \in Levels!Capturing
  BY DEF Labels, Levels!Capturing
<1>3. LevelInv'
  BY <1>1, <1>2, ObserversRecord, GoesKeepsLevels
<1>4. logPc'[c] = "tracing" /\ \A d \in Captures \ {c} : logPc'[d] = logPc[d]
  BY <1>1 DEF LevelInv, LevelTypes, Goes
<1>5. Levels!Trace(c) \in Levels!File /\ Levels!Trace(c).kind = "trace"
  BY DEF Levels!Trace, Levels!Dump, Levels!File, Levels!Kinds, Levels!Moments
<1>6. \A d \in Captures : Levels!Trace(c) \notin dumps[d] /\ Levels!Trace(c) \notin trace[d]
  <2>1. \A d \in Captures : Levels!Trace(c) \notin trace[d]
    BY <1>1 DEF FileInv, MadeOnce, Unbegun
  <2>2. \A d \in Captures : Levels!Trace(c) \notin dumps[d]
    BY <1>5 DEF FileInv, OwnDumps
  <2> QED
    BY <2>1, <2>2
<1>7. \A d \in Captures : Levels!Trace(d) = Levels!Trace(c) => d = c
  BY DEF Levels!Trace, Levels!Dump
<1>8. FileTypes'
  BY <1>1, <1>5 DEF FileInv, FileTypes
<1>9. OwnDumps'
  BY <1>1, <1>4 DEF FileInv, OwnDumps
<1>10. MadeOnce'
  <2>1. ASSUME NEW d \in Captures, logPc'[d] \in Unbegun
        PROVE  Levels!Trace(d) \notin disk' /\ \A e \in Captures : Levels!Trace(d) \notin trace'[e]
    <3>1. d # c
      BY <1>4, <2>1 DEF Unbegun
    <3> QED
      BY <1>1, <1>4, <1>7, <2>1, <3>1 DEF FileInv, MadeOnce
  <2> QED
    BY <1>1, <2>1 DEF FileInv, MadeOnce, Levels!Trace, Levels!Dump
<1>11. Zipped'
  BY <1>1, <1>4, <1>6 DEF FileInv, Zipped
<1>12. Levels!CollectedIsArchived'
  <2>1. ASSUME NEW d \in Captures, logPc'[d] = "saved"
        PROVE  dumps'[d] \subseteq archive'[d] \ disk'
    BY <1>1, <1>4, <1>6, <2>1 DEF FileInv, Levels!CollectedIsArchived
  <2>2. ASSUME NEW d \in Captures, NEW f \in Levels!Removed(d)'
        PROVE  \E e \in Captures : f \in archive'[e] /\ logPc'[e] = "saved"
    <3>1. PICK e \in Captures : f \in archive[e] /\ logPc[e] = "saved"
      BY <1>1, <2>2 DEF FileInv, Levels!CollectedIsArchived, Levels!Removed
    <3> QED
      BY <1>1, <1>4, <3>1
  <2> QED
    BY <2>1, <2>2 DEF Levels!CollectedIsArchived
<1> QED
  BY <1>3, <1>8, <1>9, <1>10, <1>11, <1>12 DEF FileInv

\* The trace found is one that is there.
LEMMA RecordingStoppedKeeps ==
    ASSUME LogInv, NEW c \in Captures, Levels!RecordingStopped(c)
    PROVE  LogInv'
<1> USE DEF LogInv
<1>1. /\ logPc[c] \in {"recording", "tracing"} /\ Goes(c, "after")
      /\ UNCHANGED <<dumps, archive, disk>>
  BY DEF Levels!RecordingStopped, Levels!Goto, Goes, Levels!levels, Levels!captures
<1>2. "after" \in Labels \ {"idle", "levels"} /\ "after" \in Levels!Capturing
  BY DEF Labels, Levels!Capturing
<1>3. LevelInv'
  BY <1>1, <1>2, ObserversRecord, GoesKeepsLevels
<1>4. logPc'[c] = "after" /\ \A d \in Captures \ {c} : logPc'[d] = logPc[d]
  BY <1>1 DEF LevelInv, LevelTypes, Goes
<1>5. CASE UNCHANGED trace
  BY <1>1, <1>2, <1>3, <1>5, GoesKeepsFiles DEF Goes, LevelInv, Unbegun
<1>6. ASSUME NEW found \in Levels!Latest, trace' = [trace EXCEPT ![c] = found]
      PROVE  LogInv'
  <2>1. found \subseteq disk /\ \A f \in found : f.kind = "trace"
    BY <1>6 DEF Levels!Latest, Levels!Traces
  <2>2. trace'[c] = found /\ \A d \in Captures \ {c} : trace'[d] = trace[d]
    BY <1>6 DEF FileInv, FileTypes
  <2>3. FileTypes'
    BY <1>1, <1>6, <2>1 DEF FileInv, FileTypes
  <2>4. OwnDumps'
    BY <1>1, <1>4 DEF FileInv, OwnDumps
  <2>5. MadeOnce'
    BY <1>1, <1>4, <2>1, <2>2 DEF FileInv, MadeOnce, Unbegun, Levels!Trace, Levels!Dump
  <2>6. Zipped'
    BY <1>1, <1>4, <2>2 DEF FileInv, Zipped
  <2>7. Levels!CollectedIsArchived'
    BY <1>1, <1>4, <2>1, <2>2 DEF FileInv, Levels!CollectedIsArchived, Levels!Removed
  <2> QED
    BY <1>3, <2>3, <2>4, <2>5, <2>6, <2>7 DEF FileInv
<1> QED
  BY <1>5, <1>6 DEF Levels!RecordingStopped

\* A command ends: one that records puts the levels back.
LEMMA EndKeepsLevels ==
    ASSUME LevelInv, NEW c \in Captures, NEW l \in {"saved", "failed"}, Levels!EndWith(c, l),
           logPc[c] = "zipping", UNCHANGED logs
    PROVE  LevelInv' /\ logPc' = [logPc EXCEPT ![c] = l]
<1>1. logPc' = [logPc EXCEPT ![c] = l]
  BY DEF Levels!EndWith, Levels!Goto
<1>2. l \in Levels!Ended /\ l \in Labels \ {"idle", "levels"} /\ logPc[c] # "levels"
  BY DEF Levels!Ended, Labels
<1>3. CASE Levels!Records(c)
  <2>1. Levels!Dispose(c)
    BY <1>3 DEF Levels!EndWith
  <2> QED
    BY <1>1, <1>2, <2>1, DisposeKeepsLevels
<1>4. CASE ~Levels!Records(c)
  <2>1. c \notin observers
    BY <1>4, ObserversRecord
  <2>2. Goes(c, l)
    BY <1>1, <1>4 DEF Levels!EndWith, Goes, Levels!levels, Levels!captures
  <2> QED
    BY <1>1, <1>2, <2>1, <2>2, GoesKeepsLevels
<1> QED
  BY <1>3, <1>4

\* The commands that fail leave their files where they are.
LEMMA FailuresKeep ==
    ASSUME LogInv, NEW c \in Captures,
           Levels!RecordingFails(c) \/ Levels!ZipFails(c) \/ Levels!OutputFails(c)
    PROVE  LogInv'
<1> USE DEF LogInv, Levels!files, Levels!levels, Levels!captures
<1>1. LevelTypes
  BY DEF LevelInv
<1>2. UNCHANGED <<logs, dumps, trace, archive, disk>> /\ logPc[c] \in {"recording", "zipping"}
  BY DEF Levels!RecordingFails, Levels!ZipFails, Levels!OutputFails
<1>3. LevelInv' /\ \E l \in {"failed", "hung"} : logPc' = [logPc EXCEPT ![c] = l]
  <2>1. CASE Levels!RecordingFails(c)
    <3>1. logPc' = [logPc EXCEPT ![c] = "failed"] /\ Levels!Dispose(c) /\ "failed" \in Levels!Ended
      BY <2>1 DEF Levels!RecordingFails, Levels!Goto, Levels!Ended
    <3>2. LevelInv'
      BY <1>2, <3>1, DisposeKeepsLevels
    <3> QED
      BY <3>1, <3>2
  <2>2. CASE Levels!ZipFails(c)
    <3>1. Levels!EndWith(c, "failed") /\ logPc[c] = "zipping"
      BY <2>2 DEF Levels!ZipFails
    <3> QED
      BY <1>2, <3>1, EndKeepsLevels
  <2>3. CASE Levels!OutputFails(c)
    <3>1. Goes(c, "hung") /\ logPc[c] = "zipping"
      BY <2>3 DEF Levels!OutputFails, Levels!Goto, Goes
    <3>2. "hung" \in Labels \ {"idle", "levels"} /\ "hung" \in Levels!Capturing
      BY DEF Labels, Levels!Capturing
    <3>3. LevelInv'
      BY <3>1, <3>2, ObserversRecord, GoesKeepsLevels
    <3> QED
      BY <3>1, <3>3 DEF Goes
  <2> QED
    BY <2>1, <2>2, <2>3
<1>4. PICK l \in {"failed", "hung"} : logPc' = [logPc EXCEPT ![c] = l]
  BY <1>3
<1>5. l \in Labels \ {"saved", "zipping"} /\ l \notin Unbegun
  BY DEF Labels, Levels!Capturing, Levels!Ended, Unbegun
<1>6. FileInv'
  BY <1>1, <1>2, <1>4, <1>5, GoesKeepsFiles
<1> QED
  BY <1>3, <1>6

\* The archive is made of the files that are there.
LEMMA ZipBeginsKeeps ==
    ASSUME LogInv, NEW c \in Captures, Levels!ZipBegins(c)
    PROVE  LogInv'
<1> USE DEF LogInv
<1>1. /\ logPc[c] = "reading" /\ Goes(c, "zipping") /\ UNCHANGED <<dumps, trace, disk>>
      /\ archive' = [archive EXCEPT ![c] = disk \cap (dumps[c] \cup trace[c])]
  BY DEF Levels!ZipBegins, Levels!Goto, Goes, Levels!levels, Levels!captures
<1>2. "zipping" \in Labels \ {"idle", "levels"} /\ "zipping" \in Levels!Capturing
  BY DEF Labels, Levels!Capturing
<1>3. LevelInv'
  BY <1>1, <1>2, ObserversRecord, GoesKeepsLevels
<1>4. logPc'[c] = "zipping" /\ \A d \in Captures \ {c} : logPc'[d] = logPc[d]
  BY <1>1 DEF LevelInv, LevelTypes, Goes
<1>5. /\ archive'[c] = disk \cap (dumps[c] \cup trace[c])
      /\ \A d \in Captures \ {c} : archive'[d] = archive[d]
  BY <1>1 DEF FileInv, FileTypes
<1>6. FileTypes'
  BY <1>1 DEF FileInv, FileTypes
<1>7. OwnDumps'
  BY <1>1, <1>4 DEF FileInv, OwnDumps
<1>8. MadeOnce'
  BY <1>1, <1>4 DEF FileInv, MadeOnce, Unbegun, Levels!Trace, Levels!Dump
<1>9. Zipped'
  <2>1. dumps[c] \subseteq disk
    BY <1>1 DEF FileInv, OwnDumps
  <2> QED
    BY <1>1, <1>4, <1>5, <2>1 DEF FileInv, Zipped
<1>10. Levels!CollectedIsArchived'
  <2>1. ASSUME NEW d \in Captures, logPc'[d] = "saved"
        PROVE  dumps'[d] \subseteq archive'[d] \ disk'
    BY <1>1, <1>4, <1>5, <2>1 DEF FileInv, Levels!CollectedIsArchived
  <2>2. ASSUME NEW d \in Captures, NEW f \in Levels!Removed(d)'
        PROVE  \E e \in Captures : f \in archive'[e] /\ logPc'[e] = "saved"
    <3>1. PICK e \in Captures : f \in archive[e] /\ logPc[e] = "saved"
      BY <1>1, <2>2 DEF FileInv, Levels!CollectedIsArchived, Levels!Removed
    <3> QED
      BY <1>1, <1>4, <1>5, <3>1
  <2> QED
    BY <2>1, <2>2 DEF Levels!CollectedIsArchived
<1> QED
  BY <1>3, <1>6, <1>7, <1>8, <1>9, <1>10 DEF FileInv

\* What is removed was in the archive, or another command had removed it.
LEMMA ZipClosesKeeps ==
    ASSUME LogInv, NEW c \in Captures, Levels!ZipCloses(c)
    PROVE  LogInv'
<1> USE DEF LogInv
<1>1. PICK unread \in SUBSET (archive[c] \ disk) : archive' = [archive EXCEPT ![c] = @ \ unread]
  BY DEF Levels!ZipCloses
<1>2. /\ logPc[c] = "zipping" /\ Levels!EndWith(c, "saved") /\ UNCHANGED <<logs, dumps, trace>>
      /\ disk' = disk \ (dumps[c] \cup trace[c])
  BY DEF Levels!ZipCloses
<1>3. LevelInv' /\ logPc' = [logPc EXCEPT ![c] = "saved"]
  BY <1>2, EndKeepsLevels
<1>4. logPc'[c] = "saved" /\ \A d \in Captures \ {c} : logPc'[d] = logPc[d]
  BY <1>3 DEF LevelInv, LevelTypes
<1>5. archive'[c] = archive[c] \ unread /\ \A d \in Captures \ {c} : archive'[d] = archive[d]
  BY <1>1 DEF FileInv, FileTypes
<1>6. /\ dumps[c] \subseteq archive[c] \cap disk
      /\ \A f \in trace[c] : f \in archive[c] \/ f \notin disk
  BY <1>2 DEF FileInv, OwnDumps, Zipped
<1>7. FileTypes'
  BY <1>1, <1>2 DEF FileInv, FileTypes
<1>8. OwnDumps'
  <2>1. ASSUME NEW d \in Captures, NEW f \in dumps[d]
        PROVE  f.of = d /\ f.kind \in {"memory", "gc"} /\ (logPc'[d] # "saved" => f \in disk')
    <3>1. f.of = d /\ f.kind \in {"memory", "gc"} /\ (logPc[d] # "saved" => f \in disk)
      BY DEF FileInv, OwnDumps
    <3>2. d # c => f \notin dumps[c] \cup trace[c]
      BY <3>1 DEF FileInv, OwnDumps, MadeOnce
    <3> QED
      BY <1>2, <1>4, <3>1, <3>2
  <2> QED
    BY <1>2, <2>1 DEF OwnDumps
<1>9. MadeOnce'
  BY <1>2, <1>4 DEF FileInv, MadeOnce, Unbegun, Levels!Trace, Levels!Dump
<1>10. Zipped'
  BY <1>2, <1>4, <1>5 DEF FileInv, Zipped
<1>11. Levels!CollectedIsArchived'
  <2>1. ASSUME NEW d \in Captures, logPc'[d] = "saved"
        PROVE  dumps'[d] \subseteq archive'[d] \ disk'
    <3>1. CASE d = c
      BY <1>1, <1>2, <1>5, <1>6, <3>1
    <3>2. CASE d # c
      BY <1>2, <1>4, <1>5, <2>1, <3>2 DEF FileInv, Levels!CollectedIsArchived
    <3> QED
      BY <3>1, <3>2
  <2>2. ASSUME NEW d \in Captures, NEW f \in Levels!Removed(d)'
        PROVE  \E e \in Captures : f \in archive'[e] /\ logPc'[e] = "saved"
    <3>1. CASE f \in Levels!Removed(d)
      <4>1. PICK e \in Captures : f \in archive[e] /\ logPc[e] = "saved"
        BY <3>1 DEF FileInv, Levels!CollectedIsArchived
      <4> QED
        BY <1>2, <1>4, <1>5, <4>1
    <3>2. CASE f \notin Levels!Removed(d)
      <4>1. f \in disk /\ f \in dumps[c] \cup trace[c]
        BY <1>2, <2>2, <3>2 DEF Levels!Removed
      <4>2. f \in archive'[c]
        BY <1>1, <1>5, <1>6, <4>1
      <4> QED
        BY <1>4, <4>2
    <3> QED
      BY <3>1, <3>2
  <2> QED
    BY <2>1, <2>2 DEF Levels!CollectedIsArchived
<1> QED
  BY <1>3, <1>7, <1>8, <1>9, <1>10, <1>11 DEF FileInv

\* The captures, with what a user may select.
LogNext ==
    \/ \E c \in Captures :
           \/ \E selected \in SUBSET Levels!Kinds : Levels!SelectLogs(c, selected)
           \/ Levels!Cancelled(c) \/ Levels!ChooseSaveLocation(c)
           \/ Levels!TraceBegins(c) \/ Levels!RecordingStopped(c) \/ Levels!RecordingFails(c)
           \/ Levels!CaptureActivityLogs(c) \/ Levels!DisposeCapture(c)
           \/ Levels!Step(c)
    \/ Levels!ServerStarts \/ Levels!ServerStops \/ Levels!OutputLevelChanges
    \/ Levels!TraceLevelChanges \/ Levels!UpdateTraceLevel

\* Every step of the captures keeps their invariant.
LEMMA LogNextKeeps ==
    ASSUME LogInv, LogNext
    PROVE  LogInv'
<1>1. ASSUME NEW c \in Captures, NEW selected \in SUBSET Levels!Kinds, Levels!SelectLogs(c, selected)
      PROVE  LogInv'
  BY <1>1, SelectLogsKeeps
<1>2. ASSUME NEW c \in Captures, Levels!Cancelled(c) \/ Levels!ChooseSaveLocation(c)
      PROVE  LogInv'
  BY <1>2, PrepareKeeps
<1>3. ASSUME NEW c \in Captures, Levels!TraceBegins(c)
      PROVE  LogInv'
  BY <1>3, TraceBeginsKeeps
<1>4. ASSUME NEW c \in Captures, Levels!RecordingStopped(c)
      PROVE  LogInv'
  BY <1>4, RecordingStoppedKeeps
<1>5. ASSUME NEW c \in Captures, Levels!CaptureActivityLogs(c) \/ Levels!DisposeCapture(c)
      PROVE  LogInv'
  BY <1>5, CaptureKeeps
<1>6. ASSUME NEW c \in Captures, Levels!RecordingFails(c) \/ Levels!Step(c)
      PROVE  LogInv'
  BY <1>6, LevelsAnsweredKeeps, DumpsKeep, ZipBeginsKeeps, ZipClosesKeeps, FailuresKeep
     DEF Levels!Step
<1>7. CASE \/ Levels!ServerStarts \/ Levels!ServerStops \/ Levels!OutputLevelChanges
           \/ Levels!TraceLevelChanges \/ Levels!UpdateTraceLevel
  BY <1>7, ServicesAssumption, LevelStepsKeep
<1> QED
  BY <1>1, <1>2, <1>3, <1>4, <1>5, <1>6, <1>7 DEF LogNext

\* Both captures that the services have are such captures: the one for the files has
\* the same steps but changes of levels and stops of the server.
LEMMA LevelsNextIsLogNext ==
    ASSUME Levels!Next
    PROVE  LogNext
<1>1. {"activity"} \subseteq Levels!Kinds
  BY DEF Levels!Kinds
<1>2. ASSUME NEW c \in Captures, NEW selected \in {{"activity"}}, Levels!SelectLogs(c, selected)
      PROVE  LogNext
  BY <1>1, <1>2 DEF LogNext
<1> QED
  BY <1>2 DEF Levels!Next, LogNext

\* The steps of a command do not depend on what there is to select or to change.
LEMMA FilesStepsAreLogSteps ==
    ASSUME NEW c
    PROVE  /\ Files!Cancelled(c) => Levels!Cancelled(c)
           /\ Files!ChooseSaveLocation(c) => Levels!ChooseSaveLocation(c)
           /\ Files!TraceBegins(c) => Levels!TraceBegins(c)
           /\ Files!RecordingStopped(c) => Levels!RecordingStopped(c)
           /\ Files!RecordingFails(c) => Levels!RecordingFails(c)
           /\ Files!CaptureActivityLogs(c) => Levels!CaptureActivityLogs(c)
           /\ Files!DisposeCapture(c) => Levels!DisposeCapture(c)
           /\ Files!Step(c) => Levels!Step(c)
<1> USE DEF Files!levels, Files!captures, Files!files, Levels!levels, Levels!captures, Levels!files,
            Files!Goto, Levels!Goto, Files!Records, Levels!Records
<1>1. Files!Dispose(c) = Levels!Dispose(c)
  BY DEF Files!Dispose, Levels!Dispose, Files!UpdateLevels, Levels!UpdateLevels
<1>2. \A then : Files!CreateCapture(c, then) = Levels!CreateCapture(c, then)
  BY DEF Files!CreateCapture, Levels!CreateCapture
<1>3. \A moment : Files!DumpsOf(c, moment) = Levels!DumpsOf(c, moment)
  BY DEF Files!DumpsOf, Levels!DumpsOf, Files!Dump, Levels!Dump
<1>4. \A moment : Files!CollectDumps(c, moment) => Levels!CollectDumps(c, moment)
  BY <1>3 DEF Files!CollectDumps, Levels!CollectDumps
<1>5. Files!Latest = Levels!Latest
  BY DEF Files!Latest, Levels!Latest, Files!Traces, Levels!Traces, Files!OldTrace, Levels!OldTrace
<1>6. \A label : Files!EndWith(c, label) => Levels!EndWith(c, label)
  BY <1>1 DEF Files!EndWith, Levels!EndWith
<1>7. Files!Cancelled(c) => Levels!Cancelled(c)
  BY DEF Files!Cancelled, Levels!Cancelled
<1>8. Files!ChooseSaveLocation(c) => Levels!ChooseSaveLocation(c)
  BY <1>2 DEF Files!ChooseSaveLocation, Levels!ChooseSaveLocation
<1>9. Files!TraceBegins(c) => Levels!TraceBegins(c)
  BY DEF Files!TraceBegins, Levels!TraceBegins, Files!Trace, Levels!Trace, Files!Dump, Levels!Dump
<1>10. Files!RecordingStopped(c) => Levels!RecordingStopped(c)
  BY <1>5 DEF Files!RecordingStopped, Levels!RecordingStopped
<1>11. Files!RecordingFails(c) => Levels!RecordingFails(c)
  BY <1>1 DEF Files!RecordingFails, Levels!RecordingFails
<1>12. Files!CaptureActivityLogs(c) => Levels!CaptureActivityLogs(c)
  BY <1>2 DEF Files!CaptureActivityLogs, Levels!CaptureActivityLogs
<1>13. Files!DisposeCapture(c) => Levels!DisposeCapture(c)
  BY <1>1 DEF Files!DisposeCapture, Levels!DisposeCapture
<1>14. Files!Step(c) => Levels!Step(c)
  <2>1. Files!LevelsRaised(c) => Levels!LevelsRaised(c)
    BY DEF Files!LevelsRaised, Levels!LevelsRaised, Files!AfterLevels, Levels!AfterLevels
  <2>2. Files!LevelsNotRaised(c) => Levels!LevelsNotRaised(c)
    BY DEF Files!LevelsNotRaised, Levels!LevelsNotRaised
  <2>3. Files!DumpsBefore(c) \/ Files!DumpsAfter(c) \/ Files!DumpsOnly(c)
        => Levels!DumpsBefore(c) \/ Levels!DumpsAfter(c) \/ Levels!DumpsOnly(c)
    BY <1>4 DEF Files!DumpsBefore, Levels!DumpsBefore, Files!DumpsAfter, Levels!DumpsAfter,
                Files!DumpsOnly, Levels!DumpsOnly
  <2>4. Files!ZipBegins(c) => Levels!ZipBegins(c)
    BY DEF Files!ZipBegins, Levels!ZipBegins
  <2>5. Files!ZipCloses(c) => Levels!ZipCloses(c)
    BY <1>6 DEF Files!ZipCloses, Levels!ZipCloses
  <2>6. Files!ZipFails(c) => Levels!ZipFails(c)
    BY <1>6 DEF Files!ZipFails, Levels!ZipFails
  <2>7. Files!OutputFails(c) => Levels!OutputFails(c)
    BY DEF Files!OutputFails, Levels!OutputFails
  <2> QED
    BY <2>1, <2>2, <2>3, <2>4, <2>5, <2>6, <2>7 DEF Files!Step, Levels!Step
<1> QED
  BY <1>7, <1>8, <1>9, <1>10, <1>11, <1>12, <1>13, <1>14

\* With no changes left the levels do not change and the server does not stop.
LEMMA FilesNextIsLogNext ==
    ASSUME LevelTypes, Files!Next
    PROVE  LogNext
<1> USE DEF Files!levels, Files!captures, Files!files, Levels!levels, Levels!captures, Levels!files
<1>1. ASSUME NEW c \in Captures, NEW selected \in {{"memory"}, {"trace", "memory"}},
             Files!SelectLogs(c, selected)
      PROVE  LogNext
  <2>1. selected \in SUBSET Levels!Kinds
    BY DEF Levels!Kinds
  <2>2. Levels!SelectLogs(c, selected)
    BY <1>1 DEF Files!SelectLogs, Levels!SelectLogs, Files!Goto, Levels!Goto
  <2> QED
    BY <2>1, <2>2 DEF LogNext
<1>2. CASE \E c \in Captures :
               \/ Files!Cancelled(c) \/ Files!ChooseSaveLocation(c)
               \/ Files!TraceBegins(c) \/ Files!RecordingStopped(c) \/ Files!RecordingFails(c)
               \/ Files!CaptureActivityLogs(c) \/ Files!DisposeCapture(c)
               \/ Files!Step(c)
  BY <1>2, FilesStepsAreLogSteps DEF LogNext
<1>3. Files!ServerStarts => Levels!ServerStarts
  BY DEF Files!ServerStarts, Levels!ServerStarts, Files!UpdateLevels, Levels!UpdateLevels
<1>4. Files!UpdateTraceLevel => Levels!UpdateTraceLevel
  BY DEF Files!UpdateTraceLevel, Levels!UpdateTraceLevel
<1>5. ~(changes < 0)
  BY DEF LevelTypes
<1>6. ~Files!ServerStops /\ ~Files!OutputLevelChanges /\ ~Files!TraceLevelChanges
  BY <1>5 DEF Files!ServerStops, Files!OutputLevelChanges, Files!TraceLevelChanges
<1>7. CASE Files!ServerStarts \/ Files!UpdateTraceLevel
  BY <1>3, <1>4, <1>7 DEF LogNext
<1> QED
  BY <1>1, <1>2, <1>6, <1>7 DEF Files!Next

\* No capture has begun; an old trace may lie in the folder.
LEMMA InitLogInv == ServicesInit => LogInv
<1> SUFFICES ASSUME ServicesInit
             PROVE  LogInv
  OBVIOUS
<1> USE DEF ServicesInit, Levels!Init
<1>1. LevelTypes
  <2>1. "idle" \in Labels
    BY DEF Labels
  <2>2. changes \in 0 .. MaxChanges
    BY ServicesAssumption DEF ServicesAssumption
  <2> QED
    BY <2>1, <2>2 DEF LevelTypes
<1>2. Raised
  BY DEF Raised
<1>3. Observed
  BY DEF Observed, Levels!ObserversEnd
<1>4. Levels!OldTrace \in Levels!File
  BY DEF Levels!OldTrace, Levels!File, Levels!Kinds, Levels!Moments
<1>5. FileTypes
  BY <1>4 DEF FileTypes
<1>6. OwnDumps /\ Zipped
  BY DEF OwnDumps, Zipped
<1>7. MadeOnce
  BY ServicesAssumption DEF ServicesAssumption, MadeOnce, Levels!Trace, Levels!Dump, Levels!OldTrace
<1>8. Levels!CollectedIsArchived
  BY DEF Levels!CollectedIsArchived, Levels!Removed
<1> QED
  BY <1>1, <1>2, <1>3, <1>5, <1>6, <1>7, <1>8 DEF LogInv, LevelInv, FileInv

\* The other services leave the captures alone.
LEMMA SameLogs == LogInv /\ UNCHANGED logVars => LogInv'
<1> SUFFICES ASSUME LogInv, UNCHANGED logVars
             PROVE  LogInv'
  OBVIOUS
<1>1. LevelInv'
  BY DEF LogInv, LevelInv, logVars, LevelTypes, Raised, Observed, Levels!ObserversEnd, Levels!Records
<1>2. FileInv'
  BY SameFiles DEF LogInv, logVars
<1> QED
  BY <1>1, <1>2 DEF LogInv

\* The invariant of the captures is one of the services.
LEMMA ServicesLogInv == ServicesSpec => []LogInv
<1>1. LogInv /\ [ServicesNext]_servicesVars => LogInv'
  <2> SUFFICES ASSUME LogInv, [ServicesNext]_servicesVars
               PROVE  LogInv'
    OBVIOUS
  <2>1. CASE Levels!Next
    BY <2>1, LevelsNextIsLogNext, LogNextKeeps
  <2>2. CASE Files!Next
    BY <2>2, FilesNextIsLogNext, LogNextKeeps DEF LogInv, LevelInv
  <2>3. CASE UNCHANGED logVars
    BY <2>3, SameLogs
  <2> QED
    BY <2>1, <2>2, <2>3 DEF ServicesNext, servicesVars
<1> QED
  BY <1>1, InitLogInv, PTL DEF ServicesSpec

\* With nothing under way the levels are those of the channels, however captures
\* overlapped with each other, with changes of levels and with restarts
\* (roslynLanguageServer.ts:131-193); observers end with their captures, and nothing
\* collected is removed that no archive holds (loggingUtils.ts:338-372).
THEOREM CapturesCorrect == ServicesSpec => []CapturesEndClean
<1>1. LogInv => CapturesEndClean
  <2> SUFFICES ASSUME LogInv
               PROVE  CapturesEndClean
    OBVIOUS
  <2> USE DEF LogInv, LevelInv, FileInv
  <2>1. Levels!TypeOK
    BY DEF Levels!TypeOK, LevelTypes, FileTypes, Labels
  <2>2. Levels!LevelsSettle
    BY DEF Levels!LevelsSettle, Raised, LevelTypes, Levels!Capturing
  <2> QED
    BY <2>1, <2>2 DEF CapturesEndClean, Observed
<1> QED
  BY <1>1, ServicesLogInv, PTL

-----------------------------------------------------------------------------
(* Blazor debugging.                                                         *)

DebugSession ==
    [kind : {"app", "browser", "managed", "other"}, by : Launches \cup {NoLaunch},
     parent : 0 .. MaxSessions, state : {"starting", "running", "ended", "failed"}]

Numbers == 1 .. Len(sessions)

Places == {"idle", "useVSDbg", "devKit", "bridge", "devKitBridge", "managed", "browser", "resolved"}

BlazorTypes ==
    /\ isTrackingSessions \in BOOLEAN
    /\ sessions \in Seq(DebugSession) /\ Len(sessions) <= MaxSessions
    /\ tracked \in Seq(Numbers)
    /\ stops \subseteq Seq(Numbers) \ {<<>>}
    /\ blazorPc \in [Launches -> Places]
    /\ app \subseteq Launches
    /\ chain \in [Launches -> 0 .. 2]
    /\ bridge \in [Launches -> {"none", "spawned", "listening", "dead"}]
    /\ pidByUrl \in Launches \cup {NoLaunch}
    /\ late \subseteq Numbers /\ crossed \subseteq Launches

\* Sessions are those of launches but for the ones of the user; a launch that is yet to
\* be resolved has none and waits for none.
Owned ==
    /\ \A s \in Numbers : sessions[s].by \in Launches \/ sessions[s].kind = "other"
    /\ \A s \in Numbers : sessions[s].parent # 0 => sessions[s].parent \in Numbers
    /\ \A l \in Launches : blazorPc[l] = "idle" =>
           chain[l] = 0 /\ \A s \in Numbers : sessions[s].by # l

\* Two launches are alive at once only where one was resolved during the other.
Live(l) ==
    \/ blazorPc[l] \notin {"idle", "resolved"}
    \/ chain[l] # 0
    \/ \E s \in Numbers : sessions[s].by = l /\ sessions[s].state \notin {"ended", "failed"}

Crossed == \A l, k \in Launches : Live(l) /\ Live(k) /\ l # k => l \in crossed

Tracked(s) == \E i \in 1 .. Len(tracked) : tracked[i] = s
ToBeStopped(s) == \E list \in stops : \E i \in 1 .. Len(list) : list[i] = s

\* The sessions of a launch that none crossed are tracked until one of them has ended,
\* and from then on nothing is tracked while one of them goes on.
Torn ==
    /\ isTrackingSessions \/ tracked = <<>>
    /\ \A s \in Numbers : sessions[s].by \in Launches \ crossed /\ sessions[s].state = "running" =>
           s \in late \/ Tracked(s) \/ ToBeStopped(s)
    /\ \A l \in Launches \ crossed : \A s \in Numbers :
           /\ sessions[s].by = l
           /\ s \in late \/ sessions[s].state = "ended" \/ ToBeStopped(s)
           => ~Live(l) \/ ~isTrackingSessions

Parents ==
    \A s \in Numbers : sessions[s].by \in Launches \ crossed /\ sessions[s].parent # 0 =>
        sessions[sessions[s].parent].by = sessions[s].by

BlazorInv == BlazorTypes /\ Owned /\ Crossed /\ Torn /\ Parents /\ Blazor!OneBridge

\* What TLC reads of the sessions is what the proofs do.
LEMMA LiveIsAlive ==
    ASSUME BlazorTypes, NEW l
    PROVE  Blazor!Alive(l) <=> Live(l)
<1>1. DOMAIN sessions = Numbers
  BY DEF BlazorTypes, Numbers
<1> QED
  BY <1>1 DEF Blazor!Alive, Live, Blazor!SessionsOf, Blazor!Ids, Blazor!InState

\* A session that is asked for is the last.
LEMMA NewSession ==
    ASSUME BlazorTypes, NEW r \in DebugSession, Len(sessions) + 1 <= MaxSessions,
           sessions' = Append(sessions, r)
    PROVE  /\ sessions' \in Seq(DebugSession) /\ Len(sessions') <= MaxSessions
           /\ Numbers' = Numbers \cup {Len(sessions) + 1} /\ Len(sessions) + 1 \notin Numbers
           /\ \A s \in Numbers : sessions'[s] = sessions[s]
           /\ sessions'[Len(sessions) + 1] = r
<1> HIDE DEF DebugSession
<1>1. sessions \in Seq(DebugSession) /\ Len(sessions) \in Nat
  BY DEF BlazorTypes
<1>2. Len(sessions') = Len(sessions) + 1
  BY <1>1
<1> QED
  BY <1>1, <1>2 DEF Numbers

\* Lists of numbers stay such when sessions are added.
LEMMA MoreNumbers ==
    ASSUME BlazorTypes, UNCHANGED <<tracked, stops, late>>, Numbers \subseteq Numbers'
    PROVE  (tracked \in Seq(Numbers) /\ stops \subseteq Seq(Numbers) \ {<<>>} /\ late \subseteq Numbers)'
<1>1. \A q \in Seq(Numbers) : q \in Seq(Numbers')
  OBVIOUS
<1> QED
  BY <1>1 DEF BlazorTypes

\* What a session is of, and the session it was started for.
Same(s) == sessions'[s].by = sessions[s].by /\ sessions'[s].parent = sessions[s].parent

\* The invariant is kept by a step that leaves what is tracked and to be stopped alone,
\* that brings no launch to life, ends no session and starts none, and asks for sessions
\* of launches alone.
LEMMA StepKeepsBlazor ==
    ASSUME BlazorInv, BlazorTypes', UNCHANGED <<isTrackingSessions, tracked, stops, late, crossed>>,
           Numbers \subseteq Numbers',
           \A s \in Numbers : Same(s) /\ sessions'[s].kind = sessions[s].kind
                              /\ (sessions'[s].state = sessions[s].state
                                  \/ sessions'[s].state = "failed"),
           \A s \in Numbers' \ Numbers :
               /\ sessions'[s].by \in Launches /\ Live(sessions'[s].by)
               /\ sessions'[s].parent = 0 /\ sessions'[s].state = "starting",
           \A l \in Launches : Live(l)' => Live(l),
           \A l \in Launches : blazorPc'[l] = "idle" => blazorPc[l] = "idle" /\ chain'[l] = 0,
           Blazor!OneBridge'
    PROVE  BlazorInv'
<1> USE DEF BlazorInv
<1>1. ASSUME NEW l \in Launches, blazorPc'[l] = "idle"
      PROVE  ~Live(l)
  BY <1>1 DEF Live, Owned
<1>2. Owned'
  <2>1. (\A s \in Numbers : sessions[s].by \in Launches \/ sessions[s].kind = "other")'
    BY DEF Owned, Same
  <2>2. (\A s \in Numbers : sessions[s].parent # 0 => sessions[s].parent \in Numbers)'
    BY DEF Owned, Same
  <2>3. ASSUME NEW l \in Launches, blazorPc'[l] = "idle"
        PROVE  chain'[l] = 0 /\ \A s \in Numbers' : sessions'[s].by # l
    BY <1>1, <2>3 DEF Owned, Same
  <2> QED
    BY <2>1, <2>2, <2>3 DEF Owned
<1>3. Crossed'
  BY DEF Crossed
<1>4. Torn'
  <2>1. (isTrackingSessions \/ tracked = <<>>)'
    BY DEF Torn
  <2>2. \A s \in Numbers : Tracked(s)' = Tracked(s) /\ ToBeStopped(s)' = ToBeStopped(s)
    BY DEF Tracked, ToBeStopped
  <2>3. ASSUME NEW s \in Numbers', sessions'[s].by \in Launches \ crossed', sessions'[s].state = "running"
        PROVE  s \in late' \/ Tracked(s)' \/ ToBeStopped(s)'
    BY <2>2, <2>3 DEF Torn, Same
  <2>4. ASSUME NEW l \in Launches \ crossed', NEW s \in Numbers', sessions'[s].by = l,
               s \in late' \/ sessions'[s].state = "ended" \/ ToBeStopped(s)'
        PROVE  ~Live(l)' \/ ~isTrackingSessions'
    <3>1. s \in Numbers
      <4> SUFFICES ASSUME s \notin Numbers
                   PROVE  FALSE
        OBVIOUS
      <4>1. s \notin late /\ ~ToBeStopped(s)
        <5>1. \A list \in stops : \A i \in 1 .. Len(list) : list[i] \in Numbers
          BY DEF BlazorTypes
        <5> QED
          BY <5>1 DEF BlazorTypes, ToBeStopped
      <4> QED
        BY <2>4, <4>1 DEF ToBeStopped
    <3>2. s \in late \/ sessions[s].state = "ended" \/ ToBeStopped(s)
      BY <2>2, <2>4, <3>1
    <3>3. ~Live(l) \/ ~isTrackingSessions
      BY <2>4, <3>1, <3>2 DEF Torn, Same
    <3> QED
      BY <3>3
  <2> QED
    BY <2>1, <2>3, <2>4 DEF Torn
<1>5. Parents'
  BY DEF Parents, Same, Owned
<1> QED
  BY <1>2, <1>3, <1>4, <1>5

BridgeTypes ==
    /\ bridge \in [Launches -> {"none", "spawned", "listening", "dead"}]
    /\ pidByUrl \in Launches \cup {NoLaunch}

\* A launch that is being resolved goes on, and may ask for a session.
LEMMA LaunchGoesOn ==
    ASSUME BlazorInv, NEW l \in Launches, blazorPc[l] \notin {"idle", "resolved"},
           NEW p \in Places \ {"idle"}, blazorPc' = [blazorPc EXCEPT ![l] = p],
           NEW n \in 0 .. 2, chain' = [chain EXCEPT ![l] = n],
           UNCHANGED <<isTrackingSessions, tracked, stops, app, late, crossed>>,
           \/ UNCHANGED sessions
           \/ \E kind \in {"app", "browser", "managed"} :
                  /\ Len(sessions) + 1 <= MaxSessions
                  /\ sessions' = Append(sessions, Blazor!Session(kind, l, 0)),
           BridgeTypes', Blazor!OneBridge'
    PROVE  BlazorInv'
<1>1. BlazorTypes /\ Live(l)
  BY DEF BlazorInv, Live
<1>2. /\ blazorPc'[l] = p /\ chain'[l] = n
      /\ \A k \in Launches \ {l} : blazorPc'[k] = blazorPc[k] /\ chain'[k] = chain[k]
  BY <1>1 DEF BlazorTypes
<1>3. /\ sessions' \in Seq(DebugSession) /\ Len(sessions') <= MaxSessions
      /\ Numbers \subseteq Numbers'
      /\ \A s \in Numbers : sessions'[s] = sessions[s]
      /\ \A s \in Numbers' \ Numbers :
             sessions'[s].by = l /\ sessions'[s].parent = 0 /\ sessions'[s].state = "starting"
  <2>1. CASE UNCHANGED sessions
    BY <1>1, <2>1 DEF BlazorTypes, Numbers
  <2>2. ASSUME NEW kind \in {"app", "browser", "managed"},
               Len(sessions) + 1 <= MaxSessions,
               sessions' = Append(sessions, Blazor!Session(kind, l, 0))
        PROVE  <1>3
    <3>1. PICK r : r = Blazor!Session(kind, l, 0)
      OBVIOUS
    <3>2. r \in DebugSession /\ r.by = l /\ r.parent = 0 /\ r.state = "starting"
      BY <3>1, ServicesAssumption DEF Blazor!Session, DebugSession, ServicesAssumption
    <3> QED
      BY <1>1, <2>2, <3>1, <3>2, NewSession
  <2> QED
    BY <2>1, <2>2
<1>4. BlazorTypes'
  <2>1. (tracked \in Seq(Numbers) /\ stops \subseteq Seq(Numbers) \ {<<>>} /\ late \subseteq Numbers)'
    BY <1>1, <1>3, MoreNumbers
  <2> QED
    BY <1>1, <1>3, <2>1 DEF BlazorTypes, BridgeTypes
<1>5. ASSUME NEW k \in Launches, Live(k)'
      PROVE  Live(k)
  <2>1. CASE k = l
    BY <1>1, <2>1
  <2>2. CASE k # l
    BY <1>2, <1>3, <1>5, <2>2 DEF Live
  <2> QED
    BY <2>1, <2>2
<1>6. \A k \in Launches : blazorPc'[k] = "idle" => blazorPc[k] = "idle" /\ chain'[k] = 0
  BY <1>2 DEF BlazorInv, Owned
<1> QED
  BY <1>1, <1>3, <1>4, <1>5, <1>6, StepKeepsBlazor DEF Same

\* A bridge alone changes nothing but itself.
LEMMA BridgeAlone ==
    ASSUME BlazorInv, BridgeTypes', Blazor!OneBridge',
           UNCHANGED <<isTrackingSessions, tracked, stops, app, late, crossed, blazorPc, chain, sessions>>
    PROVE  BlazorInv'
<1>1. BlazorTypes' /\ Numbers' = Numbers
  BY DEF BlazorInv, BlazorTypes, BridgeTypes, Numbers
<1>2. \A l \in Launches : Live(l)' => Live(l)
  BY DEF Live, Numbers
<1> QED
  BY <1>1, <1>2, StepKeepsBlazor DEF Same, BlazorInv, Owned

\* The answer of a bridge lets the resolution of its launch go on.
LEMMA BridgeAnswersKeeps ==
    ASSUME BlazorInv, BridgeTypes', Blazor!OneBridge', NEW l \in Launches, Blazor!BridgeAnswers(l),
           UNCHANGED <<isTrackingSessions, tracked, stops, app, late, crossed, chain>>
    PROVE  BlazorInv'
<1>1. chain[l] \in 0 .. 2 /\ chain' = [chain EXCEPT ![l] = chain[l]]
  BY DEF BlazorInv, BlazorTypes
<1>2. CASE blazorPc[l] = "bridge"
  <2>1. /\ Len(sessions) + 1 <= MaxSessions /\ sessions' = Append(sessions, Blazor!Session("managed", l, 0))
        /\ blazorPc' = [blazorPc EXCEPT ![l] = "managed"]
    BY <1>2 DEF Blazor!BridgeAnswers, Blazor!Room, Blazor!Goto
  <2>2. "managed" \in Places \ {"idle"}
    BY DEF Places
  <2> QED
    BY <1>1, <1>2, <2>1, <2>2, LaunchGoesOn
<1>3. CASE blazorPc[l] = "devKitBridge"
  <2>1. blazorPc' = [blazorPc EXCEPT ![l] = "resolved"] /\ UNCHANGED sessions
    BY <1>3 DEF Blazor!BridgeAnswers, Blazor!Goto
  <2>2. "resolved" \in Places \ {"idle"}
    BY DEF Places
  <2> QED
    BY <1>1, <1>3, <2>1, <2>2, LaunchGoesOn
<1>4. CASE blazorPc[l] \notin {"bridge", "devKitBridge"}
  BY <1>4, BridgeAlone DEF Blazor!BridgeAnswers
<1> QED
  BY <1>2, <1>3, <1>4

\* The steps of a bridge: one that listens takes the place of the one before.
LEMMA BridgesKeep ==
    ASSUME BlazorInv, NEW l \in Launches,
           Blazor!BridgeListens(l) \/ Blazor!BridgeGivenUp(l) \/ Blazor!BridgeDies(l)
    PROVE  BlazorInv'
<1> USE DEF Blazor!tracking, Blazor!bridges
<1>1. UNCHANGED <<isTrackingSessions, tracked, stops, app, late, crossed, chain>>
      /\ Blazor!BridgeAnswers(l)
  BY DEF Blazor!BridgeListens, Blazor!BridgeGivenUp, Blazor!BridgeDies
<1>2. BridgeTypes /\ Blazor!OneBridge
  BY DEF BlazorInv, BlazorTypes, BridgeTypes
<1>3. CASE Blazor!BridgeListens(l)
  <2>1. BridgeTypes' /\ Blazor!OneBridge'
    BY <1>2, <1>3 DEF Blazor!BridgeListens, BridgeTypes, Blazor!OneBridge
  <2> QED
    BY <1>1, <2>1, BridgeAnswersKeeps
<1>4. CASE Blazor!BridgeGivenUp(l)
  <2>1. BridgeTypes' /\ Blazor!OneBridge'
    BY <1>2, <1>4 DEF Blazor!BridgeGivenUp, BridgeTypes, Blazor!OneBridge
  <2> QED
    BY <1>1, <2>1, BridgeAnswersKeeps
<1>5. CASE Blazor!BridgeDies(l)
  <2>1. BridgeTypes' /\ Blazor!OneBridge'
    BY <1>2, <1>5 DEF Blazor!BridgeDies, BridgeTypes, Blazor!OneBridge
  <2> QED
    BY <1>1, <2>1, BridgeAnswersKeeps
<1> QED
  BY <1>3, <1>4, <1>5

\* The other steps of a launch that is being resolved.
LEMMA ResolutionKeeps ==
    ASSUME BlazorInv, NEW l \in Launches,
           \/ Blazor!UseVSDbg(l) \/ Blazor!DoNotUseVSDbg(l) \/ Blazor!ManagedReturns(l)
           \/ \E found \in BOOLEAN : Blazor!BrowserDetermined(l, found)
    PROVE  BlazorInv'
<1> USE DEF Blazor!tracking, Blazor!bridges, Blazor!Goto
<1>1. chain[l] \in 0 .. 2 /\ chain = [chain EXCEPT ![l] = chain[l]]
  BY DEF BlazorInv, BlazorTypes
<1>2. BridgeTypes /\ Blazor!OneBridge
  BY DEF BlazorInv, BlazorTypes, BridgeTypes
<1>3. CASE Blazor!UseVSDbg(l)
  <2>1. PICK p \in {"devKitBridge", "bridge"} : blazorPc' = [blazorPc EXCEPT ![l] = p]
    BY <1>3 DEF Blazor!UseVSDbg
  <2>2. p \in Places \ {"idle"}
    BY DEF Places
  <2>3. BridgeTypes' /\ Blazor!OneBridge'
    BY <1>2, <1>3 DEF Blazor!UseVSDbg, BridgeTypes, Blazor!OneBridge
  <2>4. /\ blazorPc[l] \notin {"idle", "resolved"}
        /\ UNCHANGED <<isTrackingSessions, tracked, stops, app, late, crossed, chain, sessions>>
    BY <1>3 DEF Blazor!UseVSDbg
  <2> QED
    BY <1>1, <2>1, <2>2, <2>3, <2>4, LaunchGoesOn
<1>4. CASE Blazor!DoNotUseVSDbg(l) \/ Blazor!ManagedReturns(l)
  <2>1. PICK p \in {"resolved", "browser"} : blazorPc' = [blazorPc EXCEPT ![l] = p]
    BY <1>4 DEF Blazor!DoNotUseVSDbg, Blazor!ManagedReturns
  <2>2. p \in Places \ {"idle"}
    BY DEF Places
  <2>3. BridgeTypes' /\ Blazor!OneBridge'
    BY <1>2, <1>4 DEF Blazor!DoNotUseVSDbg, Blazor!ManagedReturns, BridgeTypes, Blazor!OneBridge
  <2>4. /\ blazorPc[l] \notin {"idle", "resolved"}
        /\ UNCHANGED <<isTrackingSessions, tracked, stops, app, late, crossed, chain, sessions>>
    BY <1>4 DEF Blazor!DoNotUseVSDbg, Blazor!ManagedReturns
  <2> QED
    BY <1>1, <2>1, <2>2, <2>3, <2>4, LaunchGoesOn
<1>5. ASSUME NEW found \in BOOLEAN, Blazor!BrowserDetermined(l, found)
      PROVE  BlazorInv'
  <2>1. /\ blazorPc[l] = "browser" /\ Len(sessions) + 1 <= MaxSessions
        /\ blazorPc' = [blazorPc EXCEPT ![l] = "resolved"]
        /\ UNCHANGED <<isTrackingSessions, tracked, stops, app, late, crossed, bridge, pidByUrl>>
    BY <1>5 DEF Blazor!BrowserDetermined, Blazor!Return, Blazor!Room
  <2>2. PICK n \in 0 .. 2 : chain' = [chain EXCEPT ![l] = n]
    <3>1. PICK n : n = IF l \in app /\ found THEN 1 ELSE 0
      OBVIOUS
    <3>2. chain' = [chain EXCEPT ![l] = n]
      BY <1>5, <3>1 DEF Blazor!BrowserDetermined, Blazor!Return
    <3>3. n \in 0 .. 2
      BY <3>1
    <3> QED
      BY <3>2, <3>3
  <2>3. \/ UNCHANGED sessions
        \/ \E kind \in {"app", "browser", "managed"} :
               sessions' = Append(sessions, Blazor!Session(kind, l, 0))
    BY <1>5 DEF Blazor!BrowserDetermined, Blazor!Return
  <2>4. "resolved" \in Places \ {"idle"}
    BY DEF Places
  <2>5. BridgeTypes' /\ Blazor!OneBridge'
    BY <1>2, <2>1 DEF BridgeTypes, Blazor!OneBridge
  <2> QED
    BY <2>1, <2>2, <2>3, <2>4, <2>5, LaunchGoesOn
<1> QED
  BY <1>3, <1>4, <1>5

\* A session goes into another state.
Put(s, state) == [sessions EXCEPT ![s].state = state]

\* Only the state of that session changes.
LEMMA PutFacts ==
    ASSUME BlazorTypes, NEW s \in Numbers, NEW state \in {"starting", "running", "ended", "failed"}
    PROVE  /\ Put(s, state) \in Seq(DebugSession) /\ Len(Put(s, state)) = Len(sessions)
           /\ \A t \in Numbers \ {s} : Put(s, state)[t] = sessions[t]
           /\ Put(s, state)[s].by = sessions[s].by /\ Put(s, state)[s].parent = sessions[s].parent
           /\ Put(s, state)[s].kind = sessions[s].kind /\ Put(s, state)[s].state = state
<1>1. sessions \in Seq(DebugSession) /\ s \in 1 .. Len(sessions)
  BY DEF BlazorTypes, Numbers
<1>2. sessions[s] \in DebugSession
  BY <1>1
<1>3. PICK r : r = [sessions[s] EXCEPT !.state = state]
  OBVIOUS
<1>4. /\ r \in DebugSession /\ r.by = sessions[s].by /\ r.parent = sessions[s].parent
      /\ r.kind = sessions[s].kind /\ r.state = state
  BY <1>2, <1>3 DEF DebugSession
<1>5. PICK list : list = Put(s, state)
  OBVIOUS
<1>6. list = [sessions EXCEPT ![s] = r]
  BY <1>3, <1>5 DEF Put
<1> HIDE DEF DebugSession
<1>7. list \in Seq(DebugSession) /\ Len(list) = Len(sessions) /\ list[s] = r
      /\ \A t \in Numbers \ {s} : list[t] = sessions[t]
  BY <1>1, <1>4, <1>6 DEF Numbers
<1> QED
  BY <1>4, <1>5, <1>7

\* The same of a step that puts a session into another state.
LEMMA NextState ==
    ASSUME BlazorTypes, NEW s \in Numbers, NEW state \in {"starting", "running", "ended", "failed"},
           sessions' = Put(s, state)
    PROVE  /\ sessions' \in Seq(DebugSession) /\ Len(sessions') = Len(sessions)
           /\ Numbers' = Numbers
           /\ \A t \in Numbers \ {s} : sessions'[t] = sessions[t]
           /\ \A t \in Numbers : Same(t) /\ sessions'[t].kind = sessions[t].kind
           /\ sessions'[s].state = state
<1>1. sessions' \in Seq(DebugSession) /\ Len(sessions') = Len(sessions)
  BY PutFacts
<1>2. Numbers' = Numbers
  BY <1>1 DEF Numbers
<1>3. \A t \in Numbers \ {s} : sessions'[t] = sessions[t]
  BY PutFacts
<1>4. /\ sessions'[s].by = sessions[s].by /\ sessions'[s].parent = sessions[s].parent
      /\ sessions'[s].kind = sessions[s].kind /\ sessions'[s].state = state
  BY PutFacts
<1> QED
  BY <1>1, <1>2, <1>3, <1>4 DEF Same

\* A session that fails to start ends the wait for it.
LEMMA SessionFailsKeeps ==
    ASSUME BlazorInv, NEW s \in Numbers, Blazor!SessionFails(s)
    PROVE  BlazorInv'
<1>1. BlazorTypes /\ Owned
  BY DEF BlazorInv
<1>2. /\ sessions' = Put(s, "failed") /\ s \in 1 .. Len(sessions)
      /\ UNCHANGED <<isTrackingSessions, tracked, stops, blazorPc, app, bridge, pidByUrl, late, crossed>>
  BY DEF Blazor!SessionFails, Blazor!tracking, Blazor!bridges, Numbers, Put
<1>3. /\ Len(sessions') = Len(sessions) /\ sessions' \in Seq(DebugSession)
      /\ \A t \in Numbers \ {s} : sessions'[t] = sessions[t]
      /\ sessions'[s].state = "failed"
      /\ \A t \in Numbers : Same(t) /\ sessions'[t].kind = sessions[t].kind
      /\ Numbers' = Numbers
  BY <1>1, <1>2, NextState
<1>4. Numbers' = Numbers
  BY <1>3
<1>7. chain' \in [Launches -> 0 .. 2] /\ \A l \in Launches : chain'[l] \in {0, chain[l]}
  <2>1. chain \in [Launches -> 0 .. 2] /\ 0 \in 0 .. 2
    BY <1>1 DEF BlazorTypes
  <2>2. chain' = chain \/ chain' = [chain EXCEPT ![sessions[s].by] = 0]
    BY DEF Blazor!SessionFails
  <2> QED
    BY <2>1, <2>2
<1>8. BlazorTypes'
  BY <1>1, <1>2, <1>3, <1>4, <1>7 DEF BlazorTypes
<1>9. ASSUME NEW l \in Launches, Live(l)'
      PROVE  Live(l)
  <2>1. ASSUME NEW t \in Numbers, sessions'[t].by = l, sessions'[t].state \notin {"ended", "failed"}
        PROVE  Live(l)
    BY <1>3, <2>1 DEF Live, Same
  <2> QED
    BY <1>2, <1>4, <1>7, <1>9, <2>1 DEF Live
<1>10. \A t \in Numbers : Same(t) /\ sessions'[t].kind = sessions[t].kind
                          /\ (sessions'[t].state = sessions[t].state \/ sessions'[t].state = "failed")
  BY <1>3 DEF Same
<1>11. \A l \in Launches : blazorPc'[l] = "idle" => blazorPc[l] = "idle" /\ chain'[l] = 0
  BY <1>1, <1>2, <1>7 DEF Owned
<1>12. Blazor!OneBridge'
  BY <1>2 DEF BlazorInv, Blazor!OneBridge
<1> QED
  BY <1>2, <1>4, <1>8, <1>9, <1>10, <1>11, <1>12, StepKeepsBlazor

\* A launch begins to be resolved: those that are alive have crossed with it.
LEMMA ResolvesKeeps ==
    ASSUME BlazorInv, NEW l \in Launches, blazorPc[l] = "idle",
           NEW p \in Places \ {"idle"}, blazorPc' = [blazorPc EXCEPT ![l] = p],
           Blazor!StartTracking, Blazor!Cross(l), app' \subseteq Launches,
           UNCHANGED <<chain, bridge, pidByUrl, late>>,
           \/ UNCHANGED sessions
           \/ Len(sessions) + 1 <= MaxSessions /\ sessions' = Append(sessions, Blazor!Session("app", l, 0))
    PROVE  BlazorInv'
<1> USE DEF BlazorInv
<1>1. BlazorTypes
  OBVIOUS
<1>2. isTrackingSessions' = TRUE /\ tracked' = <<>> /\ stops' = stops
  BY DEF Blazor!StartTracking
<1>3. blazorPc'[l] = p /\ \A k \in Launches \ {l} : blazorPc'[k] = blazorPc[k]
  BY DEF BlazorTypes
<1>4. /\ crossed \subseteq crossed' /\ crossed' \subseteq Launches
      /\ \A k \in Launches \ {l} : Live(k) => k \in crossed' /\ l \in crossed'
  <2>1. \A k : Blazor!Alive(k) <=> Live(k)
    BY LiveIsAlive
  <2> QED
    BY <2>1 DEF Blazor!Cross, BlazorTypes
<1>5. /\ sessions' \in Seq(DebugSession) /\ Len(sessions') <= MaxSessions
      /\ Numbers \subseteq Numbers'
      /\ \A s \in Numbers : sessions'[s] = sessions[s]
      /\ \A s \in Numbers' \ Numbers :
             sessions'[s].by = l /\ sessions'[s].parent = 0 /\ sessions'[s].state = "starting"
  <2>1. CASE UNCHANGED sessions
    BY <1>1, <2>1 DEF BlazorTypes, Numbers
  <2>2. CASE Len(sessions) + 1 <= MaxSessions /\ sessions' = Append(sessions, Blazor!Session("app", l, 0))
    <3>1. PICK r : r = Blazor!Session("app", l, 0)
      OBVIOUS
    <3>2. r \in DebugSession /\ r.by = l /\ r.parent = 0 /\ r.state = "starting"
      BY <3>1, ServicesAssumption DEF Blazor!Session, DebugSession, ServicesAssumption
    <3> QED
      BY <1>1, <2>2, <3>1, <3>2, NewSession
  <2> QED
    BY <2>1, <2>2
<1>6. BlazorTypes'
  <2>1. (stops \subseteq Seq(Numbers) \ {<<>>} /\ late \subseteq Numbers)'
    <3>1. \A q \in Seq(Numbers) : q \in Seq(Numbers')
      BY <1>5
    <3> QED
      BY <1>1, <1>2, <1>5, <3>1 DEF BlazorTypes
  <2>2. (tracked \in Seq(Numbers))'
    BY <1>2
  <2> QED
    BY <1>1, <1>2, <1>4, <1>5, <2>1, <2>2 DEF BlazorTypes
<1>7. ASSUME NEW k \in Launches \ {l}, Live(k)'
      PROVE  Live(k)
  BY <1>3, <1>5, <1>7 DEF Live
<1>8. \A s \in Numbers : sessions[s].by # l
  BY DEF Owned
<1>9. Owned'
  <2>1. (\A s \in Numbers : sessions[s].by \in Launches \/ sessions[s].kind = "other")'
    BY <1>5 DEF Owned
  <2>2. (\A s \in Numbers : sessions[s].parent # 0 => sessions[s].parent \in Numbers)'
    BY <1>5 DEF Owned
  <2>3. ASSUME NEW k \in Launches, blazorPc'[k] = "idle"
        PROVE  chain'[k] = 0 /\ \A s \in Numbers' : sessions'[s].by # k
    BY <1>3, <1>5, <2>3 DEF Owned
  <2> QED
    BY <2>1, <2>2, <2>3 DEF Owned
<1>10. Crossed'
  <2> SUFFICES ASSUME NEW k \in Launches, NEW m \in Launches, Live(k)', Live(m)', k # m
               PROVE  k \in crossed'
    BY DEF Crossed
  <2>1. CASE k # l /\ m # l
    BY <1>4, <1>7, <2>1 DEF Crossed
  <2>2. CASE k = l \/ m = l
    BY <1>4, <1>7, <2>2
  <2> QED
    BY <2>1, <2>2
<1>11. Torn'
  <2>1. \A s \in Numbers' \ Numbers : s \notin late /\ ~ToBeStopped(s)
    <3>1. \A list \in stops : \A i \in 1 .. Len(list) : list[i] \in Numbers
      BY <1>1 DEF BlazorTypes
    <3> QED
      BY <1>1, <3>1 DEF BlazorTypes, ToBeStopped
  <2>2. ASSUME NEW s \in Numbers', sessions'[s].by \in Launches \ crossed', sessions'[s].state = "running"
        PROVE  FALSE
    <3>1. s \in Numbers /\ sessions[s].by \in Launches \ {l}
      BY <1>5, <1>8, <2>2
    <3>2. Live(sessions[s].by)
      BY <1>5, <2>2, <3>1 DEF Live
    <3> QED
      BY <1>4, <1>5, <2>2, <3>1, <3>2
  <2>3. ASSUME NEW k \in Launches \ crossed', NEW s \in Numbers', sessions'[s].by = k,
               s \in late' \/ sessions'[s].state = "ended" \/ ToBeStopped(s)'
        PROVE  ~Live(k)'
    <3>1. s \in Numbers
      BY <1>2, <1>5, <2>1, <2>3 DEF ToBeStopped
    <3>2. k # l
      BY <1>5, <1>8, <2>3, <3>1
    <3> QED
      BY <1>4, <1>7, <3>2
  <2> QED
    BY <1>2, <2>2, <2>3 DEF Torn
<1>12. Parents'
  BY <1>4, <1>5 DEF Parents, Owned
<1>13. Blazor!OneBridge'
  BY DEF Blazor!OneBridge
<1> QED
  BY <1>6, <1>9, <1>10, <1>11, <1>12, <1>13

\* The three ways in which a launch begins.
LEMMA BeginningsKeep ==
    ASSUME BlazorInv, NEW l \in Launches,
           \/ \E launch \in BOOLEAN : Blazor!ResolveWithBrowser(l, launch)
           \/ Blazor!ResolveAppOnly(l) \/ Blazor!TryToUseVSDbgForMono(l)
    PROVE  BlazorInv'
<1> USE DEF Blazor!bridges, Blazor!Goto
<1>1. app \subseteq Launches
  BY DEF BlazorInv, BlazorTypes
<1>2. PICK p \in {"useVSDbg", "resolved", "devKit"} : blazorPc' = [blazorPc EXCEPT ![l] = p]
  BY DEF Blazor!ResolveWithBrowser, Blazor!ResolveAppOnly, Blazor!TryToUseVSDbgForMono
<1>3. p \in Places \ {"idle"}
  BY DEF Places
<1>4. /\ blazorPc[l] = "idle" /\ Blazor!StartTracking /\ Blazor!Cross(l)
      /\ UNCHANGED <<chain, bridge, pidByUrl, late>>
      /\ \/ UNCHANGED sessions
         \/ Len(sessions) + 1 <= MaxSessions /\ sessions' = Append(sessions, Blazor!Session("app", l, 0))
  BY DEF Blazor!ResolveWithBrowser, Blazor!ResolveAppOnly, Blazor!TryToUseVSDbgForMono, Blazor!Room
<1>5. app' \subseteq Launches
  BY <1>1 DEF Blazor!ResolveWithBrowser, Blazor!ResolveAppOnly, Blazor!TryToUseVSDbgForMono
<1> QED
  BY <1>2, <1>3, <1>4, <1>5, ResolvesKeeps

\* A session of the user that has nothing to do with a launch.
LEMMA OtherSessionStartsKeeps ==
    ASSUME BlazorInv, Blazor!OtherSessionStarts
    PROVE  BlazorInv'
<1> USE DEF BlazorInv
<1>1. BlazorTypes
  OBVIOUS
<1>2. PICK r : r = [Blazor!Session("other", NoLaunch, 0) EXCEPT !.state = "running"]
  OBVIOUS
<1>3. r \in DebugSession /\ r.by = NoLaunch /\ r.kind = "other" /\ r.parent = 0 /\ r.state = "running"
  BY <1>2, ServicesAssumption DEF Blazor!Session, DebugSession, ServicesAssumption
<1>4. NoLaunch \notin Launches
  BY ServicesAssumption DEF ServicesAssumption
<1>5. /\ Len(sessions) + 1 <= MaxSessions /\ sessions' = Append(sessions, r)
      /\ isTrackingSessions /\ tracked' = Append(tracked, Len(sessions'))
      /\ UNCHANGED <<isTrackingSessions, stops, blazorPc, app, chain, bridge, pidByUrl, late, crossed>>
  BY <1>2 DEF Blazor!OtherSessionStarts, Blazor!Room, Blazor!bridges
<1>6. /\ sessions' \in Seq(DebugSession) /\ Len(sessions') <= MaxSessions
      /\ Numbers' = Numbers \cup {Len(sessions) + 1} /\ Len(sessions) + 1 \notin Numbers
      /\ \A s \in Numbers : sessions'[s] = sessions[s]
      /\ sessions'[Len(sessions) + 1] = r
  BY <1>1, <1>3, <1>5, NewSession
<1>7. Len(sessions') = Len(sessions) + 1
  BY <1>1, <1>5 DEF BlazorTypes
<1>8. /\ (tracked \in Seq(Numbers))'
      /\ \A i \in 1 .. Len(tracked) : i \in 1 .. Len(tracked') /\ tracked'[i] = tracked[i]
  <2>1. tracked \in Seq(Numbers') /\ Len(sessions') \in Numbers'
    BY <1>1, <1>6, <1>7 DEF BlazorTypes
  <2> QED
    BY <1>5, <2>1
<1>9. BlazorTypes'
  <2>1. (stops \subseteq Seq(Numbers) \ {<<>>} /\ late \subseteq Numbers)'
    <3>1. \A q \in Seq(Numbers) : q \in Seq(Numbers')
      BY <1>6
    <3> QED
      BY <1>1, <1>5, <1>6, <3>1 DEF BlazorTypes
  <2> QED
    BY <1>1, <1>5, <1>6, <1>8, <2>1 DEF BlazorTypes
<1> PICK n : n = Len(sessions) + 1
  OBVIOUS
<1>16. /\ Numbers' = Numbers \cup {n} /\ n \notin Numbers
       /\ \A s \in Numbers : sessions'[s] = sessions[s]
       /\ sessions'[n].by \notin Launches /\ sessions'[n].kind = "other" /\ sessions'[n].parent = 0
  BY <1>3, <1>4, <1>6
<1>17. UNCHANGED <<isTrackingSessions, stops, blazorPc, chain, late, crossed>>
  BY <1>5
<1>10. \A l \in Launches : Live(l)' => Live(l)
  BY <1>16, <1>17 DEF Live
<1>11. Owned'
  BY <1>16, <1>17 DEF Owned
<1>12. Crossed'
  BY <1>5, <1>10 DEF Crossed
<1>13. Torn'
  <2>1. \A s : Tracked(s) => Tracked(s)'
    BY <1>8 DEF Tracked
  <2>2. \A s : ToBeStopped(s)' = ToBeStopped(s)
    BY <1>5 DEF ToBeStopped
  <2>3. ASSUME NEW s \in Numbers', sessions'[s].by \in Launches
        PROVE  s \in Numbers /\ sessions'[s] = sessions[s]
    BY <1>3, <1>4, <1>6, <2>3
  <2>4. ASSUME NEW s \in Numbers', sessions'[s].by \in Launches \ crossed', sessions'[s].state = "running"
        PROVE  s \in late' \/ Tracked(s)' \/ ToBeStopped(s)'
    BY <1>5, <2>1, <2>2, <2>3, <2>4 DEF Torn
  <2>5. ASSUME NEW l \in Launches \ crossed', NEW s \in Numbers', sessions'[s].by = l,
               s \in late' \/ sessions'[s].state = "ended" \/ ToBeStopped(s)'
        PROVE  ~Live(l)' \/ ~isTrackingSessions'
    BY <1>5, <1>10, <2>2, <2>3, <2>5 DEF Torn
  <2> QED
    BY <1>5, <2>4, <2>5 DEF Torn
<1>14. Parents'
  BY <1>16, <1>17 DEF Parents, Owned
<1>15. Blazor!OneBridge'
  BY <1>5 DEF Blazor!OneBridge
<1> QED
  BY <1>9, <1>11, <1>12, <1>13, <1>14, <1>15

\* The tracked sessions but one are all of them.
LEMMA TrackedButFacts ==
    ASSUME BlazorTypes, NEW s, Tracked(s)
    PROVE  /\ Blazor!TrackedBut(s) \in Seq(Numbers)
           /\ \A t : Tracked(t) /\ t # s =>
                  \E i \in 1 .. Len(Blazor!TrackedBut(s)) : Blazor!TrackedBut(s)[i] = t
<1>1. tracked \in Seq(Numbers)
  BY DEF BlazorTypes
<1>2. PICK n : n = CHOOSE i \in DOMAIN tracked : tracked[i] = s
  OBVIOUS
<1>3. n \in 1 .. Len(tracked) /\ tracked[n] = s
  BY <1>1, <1>2 DEF Tracked
<1>4. PICK m \in Nat : m = Len(tracked)
  BY <1>1
<1>5. PICK q : q = [i \in 1 .. m - 1 |-> tracked[IF i < n THEN i ELSE i + 1]]
  OBVIOUS
<1>6. q = Blazor!TrackedBut(s)
  BY <1>2, <1>4, <1>5 DEF Blazor!TrackedBut
<1>7. n \in 1 .. m /\ m - 1 \in Nat
  BY <1>3, <1>4
<1>8. \A i \in 1 .. m - 1 : q[i] = tracked[IF i < n THEN i ELSE i + 1] /\ q[i] \in Numbers
  BY <1>1, <1>4, <1>5, <1>7
<1>9. q \in Seq(Numbers) /\ Len(q) = m - 1
  BY <1>5, <1>7, <1>8
<1>10. ASSUME NEW t, Tracked(t), t # s
       PROVE  \E i \in 1 .. Len(q) : q[i] = t
  <2>1. PICK i \in 1 .. m : tracked[i] = t
    BY <1>4, <1>10 DEF Tracked
  <2>2. i # n
    BY <1>3, <1>10, <2>1
  <2>3. CASE i < n
    <3>1. i \in 1 .. m - 1 /\ q[i] = tracked[i]
      BY <1>7, <1>8, <2>1, <2>3
    <3> QED
      BY <1>9, <2>1, <3>1
  <2>4. CASE i > n
    <3>1. i - 1 \in 1 .. m - 1 /\ ~(i - 1 < n) /\ (i - 1) + 1 = i
      BY <1>7, <2>1, <2>4
    <3>2. q[i - 1] = tracked[i]
      BY <1>8, <3>1
    <3> QED
      BY <1>9, <2>1, <3>1, <3>2
  <2> QED
    BY <1>7, <2>2, <2>3, <2>4
<1> QED
  BY <1>6, <1>9, <1>10

Listed(lists, t) == \E list \in lists : \E i \in 1 .. Len(list) : list[i] = t

\* A session that ends: the sessions that were tracked with it are to be stopped, and
\* nothing is tracked any more.
LEMMA EndKeeps ==
    ASSUME BlazorInv, NEW s \in Numbers, sessions[s].state = "running",
           sessions' = Put(s, "ended"),
           NEW remaining \in SUBSET (Seq(Numbers) \ {<<>>}),
           \A t \in Numbers \ {s} : ToBeStopped(t) => Listed(remaining, t),
           \A t : Listed(remaining, t) => ToBeStopped(t),
           Blazor!OnDidTerminate(s, remaining),
           UNCHANGED <<blazorPc, app, chain, bridge, pidByUrl, late, crossed>>
    PROVE  BlazorInv'
<1> USE DEF BlazorInv
<1>1. BlazorTypes
  OBVIOUS
<1>4. sessions' \in Seq(DebugSession) /\ Len(sessions') = Len(sessions)
  BY <1>1, NextState
<1>5. /\ Numbers' = Numbers
      /\ \A t \in Numbers \ {s} : sessions'[t] = sessions[t]
      /\ \A t \in Numbers : Same(t) /\ sessions'[t].kind = sessions[t].kind
      /\ sessions'[s].state = "ended"
  BY <1>1, NextState
<1>6. Blazor!ToSet(tracked) = {tracked[i] : i \in 1 .. Len(tracked)}
  BY <1>1 DEF BlazorTypes, Blazor!ToSet
<1>7. \/ /\ Tracked(s) /\ isTrackingSessions' = FALSE /\ tracked' = <<>>
         /\ stops' = (remaining \cup {Blazor!TrackedBut(s)}) \ {<<>>}
      \/ ~Tracked(s) /\ stops' = remaining /\ UNCHANGED <<isTrackingSessions, tracked>>
  BY <1>6 DEF Blazor!OnDidTerminate, Tracked
<1>8. BlazorTypes'
  <2>1. isTrackingSessions' \in BOOLEAN /\ tracked' \in Seq(Numbers)
    <3>1. CASE Tracked(s)
      <4>1. isTrackingSessions' = FALSE
        BY <1>7, <3>1
      <4>2. tracked' = <<>>
        BY <1>7, <3>1
      <4>3. tracked' \in Seq(Numbers)
        BY <4>2
      <4> QED
        BY <4>1, <4>3
    <3>2. CASE ~Tracked(s)
      BY <1>1, <1>7, <3>2 DEF BlazorTypes
    <3> QED
      BY <3>1, <3>2
  <2>2. stops' \subseteq Seq(Numbers) \ {<<>>}
    BY <1>1, <1>7, TrackedButFacts
  <2> QED
    BY <1>1, <1>4, <1>5, <2>1, <2>2 DEF BlazorTypes
<1>9. ASSUME NEW l \in Launches, Live(l)'
      PROVE  Live(l)
  <2>1. ASSUME NEW t \in Numbers, sessions'[t].by = l, sessions'[t].state \notin {"ended", "failed"}
        PROVE  Live(l)
    BY <1>5, <2>1 DEF Live
  <2> QED
    BY <1>5, <1>9, <2>1 DEF Live
<1>10. Owned'
  BY <1>5 DEF Owned, Same
<1>11. Crossed'
  BY <1>9 DEF Crossed
<1>12. \A t \in Numbers \ {s} : ToBeStopped(t) => ToBeStopped(t)'
  <2>1. \A t \in Numbers \ {s} : ToBeStopped(t) => Listed(remaining, t)
    OBVIOUS
  <2>2. remaining \subseteq stops'
    BY <1>7
  <2> QED
    BY <2>1, <2>2 DEF Listed, ToBeStopped
<1>13. ASSUME NEW t \in Numbers \ {s}, Tracked(t)
       PROVE  Tracked(t)' \/ ToBeStopped(t)'
  <2>1. CASE Tracked(s)
    <3>1. PICK q : q = Blazor!TrackedBut(s)
      OBVIOUS
    <3>2. \E i \in 1 .. Len(q) : q[i] = t
      BY <1>1, <1>13, <2>1, <3>1, TrackedButFacts
    <3>3. q # <<>>
      BY <3>2
    <3>4. q \in stops'
      BY <1>7, <2>1, <3>1, <3>3
    <3> QED
      BY <3>2, <3>4 DEF ToBeStopped
  <2>2. CASE ~Tracked(s)
    BY <1>7, <1>13, <2>2 DEF Tracked
  <2> QED
    BY <2>1, <2>2
<1>14. ASSUME NEW t \in Numbers, sessions'[t].by \in Launches \ crossed, sessions'[t].state = "running"
       PROVE  t \in late \/ Tracked(t)' \/ ToBeStopped(t)'
  <2>1. t # s /\ sessions[t].by \in Launches \ crossed /\ sessions[t].state = "running"
    BY <1>5, <1>14
  <2> QED
    BY <1>12, <1>13, <2>1 DEF Torn
<1>15. ASSUME NEW l \in Launches \ crossed, NEW t \in Numbers, sessions'[t].by = l,
              t \in late \/ sessions'[t].state = "ended" \/ ToBeStopped(t)'
       PROVE  ~Live(l)' \/ ~isTrackingSessions'
  <2>1. CASE Tracked(s)
    BY <1>7, <2>1
  <2>2. CASE ~Tracked(s)
    <3>1. ToBeStopped(t)' => ToBeStopped(t)
      BY <1>7, <2>2 DEF Listed, ToBeStopped
    <3>2. sessions[t].by = l
      BY <1>5, <1>15 DEF Same
    <3>3. t \in late \/ sessions[t].state = "ended" \/ ToBeStopped(t)
      <4>1. CASE t = s
        BY <2>2, <3>2, <4>1 DEF Torn
      <4>2. CASE t # s
        BY <1>5, <1>15, <3>1, <4>2
      <4> QED
        BY <4>1, <4>2
    <3>4. ~Live(l) \/ ~isTrackingSessions
      BY <3>2, <3>3 DEF Torn
    <3> QED
      BY <1>7, <1>9, <2>2, <3>4
  <2> QED
    BY <2>1, <2>2
<1>16. Torn'
  <2>1. (isTrackingSessions \/ tracked = <<>>)'
    BY <1>7 DEF Torn
  <2> QED
    BY <1>5, <1>14, <1>15, <2>1 DEF Torn
<1>17. Parents'
  BY <1>5 DEF Parents, Same, Owned
<1>18. Blazor!OneBridge'
  BY DEF Blazor!OneBridge
<1> QED
  BY <1>8, <1>10, <1>11, <1>16, <1>17, <1>18

\* A session ends by itself, or the user stops it.
LEMMA SessionEndsKeeps ==
    ASSUME BlazorInv, NEW s \in Numbers, Blazor!SessionEnds(s)
    PROVE  BlazorInv'
<1>1. /\ sessions[s].state = "running" /\ sessions' = Put(s, "ended")
      /\ Blazor!OnDidTerminate(s, stops)
      /\ UNCHANGED <<blazorPc, app, chain, bridge, pidByUrl, late, crossed>>
  BY DEF Blazor!SessionEnds, Blazor!InState, Blazor!End, Blazor!bridges, Put
<1>2. stops \in SUBSET (Seq(Numbers) \ {<<>>})
  BY DEF BlazorInv, BlazorTypes
<1>3. \A t : Listed(stops, t) <=> ToBeStopped(t)
  BY DEF Listed, ToBeStopped
<1> QED
  BY <1>1, <1>2, <1>3, EndKeeps

\* What remains of the lists when the first of one is taken.
LEMMA RemainingFacts ==
    ASSUME BlazorTypes, NEW list \in stops, NEW remaining,
           remaining = (stops \ {list}) \cup ({Tail(list)} \ {<<>>})
    PROVE  /\ Head(list) \in Numbers
           /\ remaining \in SUBSET (Seq(Numbers) \ {<<>>})
           /\ \A t \in Numbers \ {Head(list)} : ToBeStopped(t) => Listed(remaining, t)
           /\ \A t : Listed(remaining, t) => ToBeStopped(t)
<1>1. list \in Seq(Numbers) /\ list # <<>> /\ stops \subseteq Seq(Numbers) \ {<<>>}
  BY DEF BlazorTypes
<1>2. PICK m \in Nat : m = Len(list)
  BY <1>1
<1>3. m # 0
  BY <1>1, <1>2
<1>4. Head(list) = list[1] /\ list[1] \in Numbers
  BY <1>1, <1>2, <1>3
<1>5. PICK rest : rest = Tail(list)
  OBVIOUS
<1>6. rest \in Seq(Numbers) /\ Len(rest) = m - 1
  BY <1>1, <1>2, <1>3, <1>5
<1>7. \A i \in 1 .. m - 1 : rest[i] = list[i + 1]
  BY <1>1, <1>2, <1>3, <1>5
<1>8. remaining \in SUBSET (Seq(Numbers) \ {<<>>})
  BY <1>1, <1>5, <1>6
<1>9. ASSUME NEW t \in Numbers \ {Head(list)}, ToBeStopped(t)
      PROVE  Listed(remaining, t)
  <2>1. PICK q \in stops : \E i \in 1 .. Len(q) : q[i] = t
    BY <1>9 DEF ToBeStopped
  <2>2. CASE q # list
    BY <2>1, <2>2 DEF Listed
  <2>3. CASE q = list
    <3>1. PICK i \in 1 .. m : list[i] = t
      BY <1>2, <2>1, <2>3
    <3>2. i # 1
      BY <1>4, <1>9, <3>1
    <3>3. i - 1 \in 1 .. m - 1 /\ (i - 1) + 1 = i
      BY <3>1, <3>2
    <3>4. rest[i - 1] = t
      BY <1>7, <3>1, <3>3
    <3>5. rest # <<>>
      BY <1>6, <3>3
    <3>6. rest \in remaining
      BY <1>5, <3>5
    <3> QED
      BY <1>6, <3>3, <3>4, <3>6 DEF Listed
  <2> QED
    BY <2>2, <2>3
<1>10. ASSUME NEW t, Listed(remaining, t)
       PROVE  ToBeStopped(t)
  <2>1. PICK q \in remaining : \E i \in 1 .. Len(q) : q[i] = t
    BY <1>10 DEF Listed
  <2>2. CASE q \in stops
    BY <2>1, <2>2 DEF ToBeStopped
  <2>3. CASE q = rest
    <3>1. PICK i \in 1 .. m - 1 : rest[i] = t
      BY <1>6, <2>1, <2>3
    <3>2. i + 1 \in 1 .. m /\ list[i + 1] = t
      BY <1>7, <3>1
    <3> QED
      BY <1>2, <3>2 DEF ToBeStopped
  <2> QED
    BY <1>5, <2>2, <2>3
<1> QED
  BY <1>4, <1>8, <1>9, <1>10

\* A session that is stopped ends as any other does, or had ended before.
LEMMA StopNextKeeps ==
    ASSUME BlazorInv, NEW list \in stops, Blazor!StopNext(list)
    PROVE  BlazorInv'
<1> USE DEF BlazorInv
<1>1. BlazorTypes
  OBVIOUS
<1>2. PICK s : s = Head(list)
  OBVIOUS
<1>3. PICK remaining : remaining = (stops \ {list}) \cup ({Tail(list)} \ {<<>>})
  OBVIOUS
<1>4. /\ s \in Numbers /\ remaining \in SUBSET (Seq(Numbers) \ {<<>>})
      /\ \A t \in Numbers \ {s} : ToBeStopped(t) => Listed(remaining, t)
      /\ \A t : Listed(remaining, t) => ToBeStopped(t)
  BY <1>1, <1>2, <1>3, RemainingFacts
<1>5. UNCHANGED <<blazorPc, app, chain, bridge, pidByUrl, late, crossed>>
  BY DEF Blazor!StopNext, Blazor!bridges
<1>6. CASE sessions[s].state = "running"
  <2>1. sessions' = Put(s, "ended") /\ Blazor!OnDidTerminate(s, remaining)
    BY <1>2, <1>3, <1>6 DEF Blazor!StopNext, Blazor!InState, Blazor!End, Put
  <2> QED
    BY <1>4, <1>5, <1>6, <2>1, EndKeeps
<1>7. CASE sessions[s].state # "running"
  <2>1. stops' = remaining /\ UNCHANGED <<sessions, isTrackingSessions, tracked>>
    BY <1>2, <1>3, <1>7 DEF Blazor!StopNext, Blazor!InState
  <2>2. Numbers' = Numbers
    BY <2>1 DEF Numbers
  <2>3. BlazorTypes'
    BY <1>1, <1>4, <1>5, <2>1, <2>2 DEF BlazorTypes
  <2>4. \A l : Live(l)' <=> Live(l)
    BY <1>5, <2>1, <2>2 DEF Live
  <2>5. Owned' /\ Parents' /\ Blazor!OneBridge'
    BY <1>5, <2>1, <2>2 DEF Owned, Parents, Blazor!OneBridge
  <2>6. Crossed'
    BY <1>5, <2>4 DEF Crossed
  <2>7. /\ \A t \in Numbers \ {s} : ToBeStopped(t) => ToBeStopped(t)'
        /\ \A t : ToBeStopped(t)' => ToBeStopped(t)
    BY <1>4, <2>1 DEF Listed, ToBeStopped
  <2>8. \A t : Tracked(t)' = Tracked(t)
    BY <2>1 DEF Tracked
  <2>9. Torn'
    BY <1>5, <1>7, <2>1, <2>2, <2>4, <2>7, <2>8 DEF Torn
  <2> QED
    BY <2>3, <2>5, <2>6, <2>9
<1> QED
  BY <1>6, <1>7

\* The browsers that the listeners ask for, one for each.
LEMMA BrowsersFacts ==
    ASSUME NEW hit \in SUBSET Launches, NEW s \in Nat, NEW T, NEW q,
           T = {Blazor!Session("browser", l, s) : l \in hit}, q = Blazor!SetToSeq(T)
    PROVE  q \in Seq(T) /\ Len(q) <= Cardinality(hit) /\ Cardinality(hit) \in Nat
<1>1. IsFiniteSet(hit)
  BY ServicesAssumption, FS_Subset DEF ServicesAssumption
<1>2. PICK f : f = [l \in hit |-> Blazor!Session("browser", l, s)]
  OBVIOUS
<1>3. f \in Surjection(hit, T)
  BY <1>2 DEF Surjection
<1>4. IsFiniteSet(T) /\ Cardinality(T) <= Cardinality(hit)
  BY <1>1, <1>3, FS_Surjection
<1>5. Cardinality(hit) \in Nat /\ Cardinality(T) \in Nat /\ ExistsBijection(1 .. Cardinality(T), T)
  BY <1>1, <1>4, FS_CardinalityType
<1>6. PICK c \in Nat : c = Cardinality(T)
  BY <1>5
<1>7. PICK b \in Bijection(1 .. c, T) : TRUE
  BY <1>5, <1>6 DEF ExistsBijection
<1>8. b \in [1 .. c -> T] /\ IsInjective(b)
  BY <1>7 DEF Bijection, Injection
<1>9. Blazor!IsInjective(b)
  BY <1>8 DEF IsInjective, Blazor!IsInjective
<1>10. q = CHOOSE g \in [1 .. c -> T] : Blazor!IsInjective(g)
  BY <1>6 DEF Blazor!SetToSeq, Blazor!Cardinality, Cardinality
<1>11. q \in [1 .. c -> T]
  BY <1>8, <1>9, <1>10
<1>12. q \in Seq(T) /\ Len(q) = c
  BY <1>11
<1> QED
  BY <1>4, <1>5, <1>6, <1>12

\* A session that starts is tracked, or late; the listeners that it hits ask for their
\* browsers in its name.
LEMMA SessionStartsKeeps ==
    ASSUME BlazorInv, NEW s \in Numbers, Blazor!SessionStarts(s)
    PROVE  BlazorInv'
<1> USE DEF BlazorInv
<1>1. BlazorTypes
  OBVIOUS
<1>2. PICK hit : hit = {l \in Blazor!Matching(s, sessions) : chain[l] = 1}
  OBVIOUS
<1>3. PICK T : T = {Blazor!Session("browser", l, s) : l \in hit}
  OBVIOUS
<1>4. PICK q : q = Blazor!SetToSeq(T)
  OBVIOUS
<1>5. /\ sessions[s].state = "starting" /\ Len(sessions) + Cardinality(hit) <= MaxSessions
      /\ tracked' = IF isTrackingSessions THEN Append(tracked, s) ELSE tracked
      /\ late' = IF isTrackingSessions THEN late ELSE late \cup {s}
      /\ sessions' = Put(s, "running") \o q
      /\ chain' = [l \in Launches |->
                      IF l \in hit THEN 2 ELSE IF l \in Blazor!Matching(s, sessions) THEN 0 ELSE chain[l]]
      /\ UNCHANGED <<isTrackingSessions, stops, blazorPc, app, bridge, pidByUrl, crossed>>
  BY <1>2, <1>3, <1>4 DEF Blazor!SessionStarts, Blazor!InState, Blazor!Room, Blazor!bridges, Put,
                          Blazor!Cardinality, Cardinality
<1>6. \A l \in hit : l \in Launches /\ chain[l] = 1 /\ sessions[s].kind = "app"
  BY <1>2 DEF Blazor!Matching
<1>7. s \in Nat /\ s # 0 /\ s \in 0 .. MaxSessions
  BY <1>1, ServicesAssumption DEF ServicesAssumption, BlazorTypes, Numbers
<1>8. q \in Seq(T) /\ Len(q) <= Cardinality(hit) /\ Cardinality(hit) \in Nat
  BY <1>3, <1>4, <1>6, <1>7, BrowsersFacts
<1>9. \A r \in T : /\ r \in DebugSession /\ r.kind = "browser" /\ r.by \in hit /\ r.parent = s
                   /\ r.state = "starting"
  BY <1>3, <1>6, <1>7 DEF Blazor!Session, DebugSession
<1> HIDE DEF DebugSession
<1>10. PICK mid : mid = Put(s, "running")
  OBVIOUS
<1>11. /\ mid \in Seq(DebugSession) /\ Len(mid) = Len(sessions)
       /\ \A t \in Numbers \ {s} : mid[t] = sessions[t]
       /\ mid[s].by = sessions[s].by /\ mid[s].parent = sessions[s].parent
       /\ mid[s].kind = sessions[s].kind /\ mid[s].state = "running"
  BY <1>1, <1>10, PutFacts
<1>12. q \in Seq(DebugSession) /\ Len(q) \in Nat
  BY <1>8, <1>9
<1>13. PICK m \in Nat : m = Len(sessions)
  BY <1>1 DEF BlazorTypes
<1>14. PICK n \in Nat : n = Len(q)
  BY <1>12
<1>15. /\ sessions' \in Seq(DebugSession) /\ Len(sessions') = m + n
       /\ \A t \in 1 .. m : sessions'[t] = mid[t]
       /\ \A t \in m + 1 .. m + n : sessions'[t] = q[t - m]
  <2>1. sessions' = mid \o q
    BY <1>5, <1>10
  <2>2. mid \in Seq(DebugSession) /\ q \in Seq(DebugSession) /\ Len(mid) = m /\ Len(q) = n
    BY <1>11, <1>12, <1>13, <1>14
  <2>3. sessions' \in Seq(DebugSession) /\ Len(sessions') = m + n
    <3>1. mid \o q \in Seq(DebugSession)
      BY <2>2
    <3>2. Len(mid \o q) = m + n
      BY <2>2
    <3> QED
      BY <2>1, <3>1, <3>2
  <2>4. \A t \in 1 .. m : sessions'[t] = mid[t]
    BY <2>1, <2>2
  <2>5. \A t \in m + 1 .. m + n : sessions'[t] = q[t - m]
    BY <2>1, <2>2
  <2> QED
    BY <2>3, <2>4, <2>5
<1>16. Numbers = 1 .. m /\ Numbers' = 1 .. m + n
  BY <1>13, <1>15 DEF Numbers
<1>17. /\ Numbers \subseteq Numbers'
       /\ \A t \in Numbers \ {s} : sessions'[t] = sessions[t]
       /\ sessions'[s].by = sessions[s].by /\ sessions'[s].parent = sessions[s].parent
       /\ sessions'[s].kind = sessions[s].kind /\ sessions'[s].state = "running"
  BY <1>11, <1>15, <1>16
<1>18. \A t \in Numbers' \ Numbers :
           /\ sessions'[t].kind = "browser" /\ sessions'[t].by \in hit /\ sessions'[t].parent = s
           /\ sessions'[t].state = "starting"
  <2> SUFFICES ASSUME NEW t \in Numbers' \ Numbers
               PROVE  sessions'[t] \in T
    BY <1>9
  <2>1. t \in m + 1 .. m + n /\ t - m \in 1 .. n
    BY <1>16
  <2>2. q[t - m] \in T
    BY <1>8, <1>14, <2>1
  <2> QED
    BY <1>15, <2>1, <2>2
<1>19. Len(sessions') <= MaxSessions
  BY <1>5, <1>8, <1>13, <1>14, <1>15, ServicesAssumption DEF ServicesAssumption
<1>20. /\ chain' \in [Launches -> 0 .. 2]
       /\ \A l \in Launches : chain'[l] # 0 => chain[l] # 0
  <2>1. chain \in [Launches -> 0 .. 2]
    BY <1>1 DEF BlazorTypes
  <2> QED
    BY <1>5, <1>6, <2>1
<1>21. \A l \in hit : Live(l)
  BY <1>6 DEF Live
<1>22. UNCHANGED <<isTrackingSessions, stops, blazorPc, app, bridge, pidByUrl, crossed>>
  BY <1>5
<1>23. /\ \A t : Tracked(t) => Tracked(t)'
       /\ isTrackingSessions => Tracked(s)'
       /\ tracked' \in Seq(Numbers')
       /\ ~isTrackingSessions => tracked' = tracked
  <2>1. tracked \in Seq(Numbers) /\ tracked \in Seq(Numbers') /\ s \in Numbers'
    BY <1>1, <1>17 DEF BlazorTypes
  <2>2. CASE isTrackingSessions
    <3>1. tracked' = Append(tracked, s)
      BY <1>5, <2>2
    <3>2. /\ tracked' \in Seq(Numbers') /\ Len(tracked') = Len(tracked) + 1 /\ tracked'[Len(tracked) + 1] = s
          /\ \A i \in 1 .. Len(tracked) : tracked'[i] = tracked[i]
      BY <2>1, <3>1
    <3>3. Len(tracked) \in Nat
      BY <2>1
    <3> QED
      BY <2>2, <3>2, <3>3 DEF Tracked
  <2>3. CASE ~isTrackingSessions
    BY <1>5, <2>1, <2>3 DEF Tracked
  <2> QED
    BY <2>2, <2>3
<1>24. /\ late \subseteq late' /\ late' \subseteq late \cup {s}
       /\ s \in late' \ late => ~isTrackingSessions
       /\ ~isTrackingSessions => s \in late'
  BY <1>5
<1>25. BlazorTypes'
  <2>1. (stops \subseteq Seq(Numbers) \ {<<>>} /\ late \subseteq Numbers)'
    <3>1. \A list \in Seq(Numbers) : list \in Seq(Numbers')
      BY <1>17
    <3> QED
      BY <1>1, <1>17, <1>22, <1>24, <3>1 DEF BlazorTypes
  <2> QED
    BY <1>1, <1>15, <1>19, <1>20, <1>22, <1>23, <2>1 DEF BlazorTypes
<1>26. ASSUME NEW l \in Launches, Live(l)'
       PROVE  Live(l)
  <2>1. ASSUME NEW t \in Numbers', sessions'[t].by = l, sessions'[t].state \notin {"ended", "failed"}
        PROVE  Live(l)
    <3>1. CASE t \in Numbers \ {s}
      BY <1>17, <2>1, <3>1 DEF Live
    <3>2. CASE t = s
      BY <1>5, <1>17, <2>1, <3>2 DEF Live
    <3>3. CASE t \notin Numbers
      BY <1>18, <1>21, <2>1, <3>3
    <3> QED
      BY <3>1, <3>2, <3>3
  <2> QED
    BY <1>20, <1>22, <1>26, <2>1 DEF Live
<1>27. Owned'
  <2>1. (\A t \in Numbers : sessions[t].by \in Launches \/ sessions[t].kind = "other")'
    BY <1>6, <1>17, <1>18 DEF Owned
  <2>2. (\A t \in Numbers : sessions[t].parent # 0 => sessions[t].parent \in Numbers)'
    BY <1>17, <1>18 DEF Owned
  <2>3. ASSUME NEW l \in Launches, blazorPc'[l] = "idle"
        PROVE  chain'[l] = 0 /\ \A t \in Numbers' : sessions'[t].by # l
    <3>1. blazorPc[l] = "idle" /\ chain[l] = 0 /\ \A t \in Numbers : sessions[t].by # l
      BY <1>22, <2>3 DEF Owned
    <3>2. l \notin hit
      BY <1>6, <3>1
    <3> QED
      BY <1>17, <1>18, <1>20, <3>1, <3>2
  <2> QED
    BY <2>1, <2>2, <2>3 DEF Owned
<1>28. Crossed'
  BY <1>22, <1>26 DEF Crossed
<1>29. Torn'
  <2>1. \A t : ToBeStopped(t)' = ToBeStopped(t)
    BY <1>22 DEF ToBeStopped
  <2>2. (isTrackingSessions \/ tracked = <<>>)'
    BY <1>22, <1>23 DEF Torn
  <2>3. ASSUME NEW t \in Numbers', sessions'[t].by \in Launches \ crossed', sessions'[t].state = "running"
        PROVE  t \in late' \/ Tracked(t)' \/ ToBeStopped(t)'
    <3>1. CASE t \in Numbers \ {s}
      BY <1>17, <1>22, <1>23, <1>24, <2>1, <2>3, <3>1 DEF Torn
    <3>2. CASE t = s
      BY <1>23, <1>24, <3>2
    <3>3. CASE t \notin Numbers
      BY <1>18, <2>3, <3>3
    <3> QED
      BY <3>1, <3>2, <3>3
  <2>4. ASSUME NEW l \in Launches \ crossed', NEW t \in Numbers', sessions'[t].by = l,
               t \in late' \/ sessions'[t].state = "ended" \/ ToBeStopped(t)'
        PROVE  ~Live(l)' \/ ~isTrackingSessions'
    <3>1. t \in Numbers
      <4> SUFFICES ASSUME t \notin Numbers
                   PROVE  FALSE
        OBVIOUS
      <4>1. t \notin late' /\ ~ToBeStopped(t)
        <5>1. \A list \in stops : \A i \in 1 .. Len(list) : list[i] \in Numbers
          BY <1>1 DEF BlazorTypes
        <5> QED
          BY <1>1, <1>24, <5>1 DEF BlazorTypes, ToBeStopped
      <4> QED
        BY <1>18, <2>1, <2>4, <4>1
    <3>2. sessions[t].by = l
      BY <1>17, <2>4, <3>1
    <3>3. CASE t \in late' \ late
      BY <1>22, <1>24, <3>3
    <3>4. CASE t \notin late' \ late
      <4>1. t \in late \/ sessions[t].state = "ended" \/ ToBeStopped(t)
        BY <1>17, <2>1, <2>4, <3>1, <3>4
      <4>2. ~Live(l) \/ ~isTrackingSessions
        BY <1>22, <3>1, <3>2, <4>1 DEF Torn
      <4> QED
        BY <1>22, <1>26, <4>2
    <3> QED
      BY <3>3, <3>4
  <2> QED
    BY <2>2, <2>3, <2>4 DEF Torn
<1>30. Parents'
  <2> SUFFICES ASSUME NEW t \in Numbers', sessions'[t].by \in Launches \ crossed', sessions'[t].parent # 0
               PROVE  sessions'[sessions'[t].parent].by = sessions'[t].by
    BY DEF Parents
  <2>1. CASE t \in Numbers
    <3>1. /\ sessions'[t].by = sessions[t].by /\ sessions'[t].parent = sessions[t].parent
          /\ sessions[t].parent \in Numbers
      BY <1>17, <2>1 DEF Owned
    <3>2. \A u \in Numbers : sessions'[u].by = sessions[u].by
      BY <1>17
    <3> QED
      BY <1>22, <2>1, <3>1, <3>2 DEF Parents
  <2>2. CASE t \notin Numbers
    <3>1. sessions'[t].parent = s /\ sessions'[t].by \in hit
      BY <1>18, <2>2
    <3>2. sessions[s].by \in Launches
      BY <1>6, <3>1 DEF Owned
    <3>3. Live(sessions[s].by)
      BY <1>5, <3>2 DEF Live
    <3>4. sessions[s].by = sessions'[t].by
      BY <1>6, <1>21, <1>22, <3>1, <3>2, <3>3 DEF Crossed
    <3> QED
      BY <1>17, <3>1, <3>4
  <2> QED
    BY <2>1, <2>2
<1>31. Blazor!OneBridge'
  BY <1>22 DEF Blazor!OneBridge
<1> QED
  BY <1>25, <1>27, <1>28, <1>29, <1>30, <1>31

\* No launch was resolved yet.
LEMMA InitBlazorInv == ServicesInit => BlazorInv
<1> SUFFICES ASSUME ServicesInit
             PROVE  BlazorInv
  OBVIOUS
<1> USE DEF ServicesInit, Blazor!Init
<1>1. Numbers = {}
  BY DEF Numbers
<1>2. BlazorTypes
  <2>1. "idle" \in Places
    BY DEF Places
  <2>2. sessions \in Seq(DebugSession) /\ tracked \in Seq(Numbers) /\ Len(sessions) = 0
    <3> HIDE DEF DebugSession, Numbers
    <3> QED
      OBVIOUS
  <2>3. Len(sessions) <= MaxSessions
    BY <2>2, ServicesAssumption DEF ServicesAssumption
  <2>4. isTrackingSessions \in BOOLEAN /\ stops \subseteq Seq(Numbers) \ {<<>>}
    OBVIOUS
  <2>5. /\ blazorPc \in [Launches -> Places] /\ chain \in [Launches -> 0 .. 2]
        /\ bridge \in [Launches -> {"none", "spawned", "listening", "dead"}]
    BY <2>1
  <2>6. app \subseteq Launches /\ late \subseteq Numbers /\ crossed \subseteq Launches
        /\ pidByUrl \in Launches \cup {NoLaunch}
    OBVIOUS
  <2> QED
    BY <2>2, <2>3, <2>4, <2>5, <2>6 DEF BlazorTypes
<1>3. Owned /\ Torn /\ Parents
  BY <1>1 DEF Owned, Torn, Parents
<1>4. Crossed
  BY <1>1 DEF Crossed, Live
<1>5. Blazor!OneBridge
  BY DEF Blazor!OneBridge
<1> QED
  BY <1>2, <1>3, <1>4, <1>5 DEF BlazorInv

\* The other services leave the launches and their sessions alone.
LEMMA SameBlazor == BlazorInv /\ UNCHANGED blazorVars => BlazorInv'
BY DEF BlazorInv, blazorVars, BlazorTypes, Numbers, Owned, Crossed, Live, Torn, Tracked, ToBeStopped,
       Parents, Blazor!OneBridge

\* Every step of the launches, their bridges and their sessions keeps the invariant.
LEMMA BlazorNextKeeps ==
    ASSUME BlazorInv, Blazor!Next
    PROVE  BlazorInv'
<1>1. Blazor!Ids = Numbers
  BY DEF BlazorInv, BlazorTypes, Blazor!Ids, Numbers
<1>2. ASSUME NEW l \in Launches,
             \/ \E launch \in BOOLEAN : Blazor!ResolveWithBrowser(l, launch)
             \/ Blazor!ResolveAppOnly(l) \/ Blazor!TryToUseVSDbgForMono(l)
      PROVE  BlazorInv'
  BY <1>2, BeginningsKeep
<1>3. ASSUME NEW l \in Launches,
             Blazor!BridgeListens(l) \/ Blazor!BridgeGivenUp(l) \/ Blazor!BridgeDies(l)
      PROVE  BlazorInv'
  BY <1>3, BridgesKeep
<1>4. ASSUME NEW l \in Launches,
             \/ Blazor!UseVSDbg(l) \/ Blazor!DoNotUseVSDbg(l) \/ Blazor!ManagedReturns(l)
             \/ \E found \in BOOLEAN : Blazor!BrowserDetermined(l, found)
      PROVE  BlazorInv'
  BY <1>4, ResolutionKeeps
<1>5. ASSUME NEW s \in Numbers,
             Blazor!SessionStarts(s) \/ Blazor!SessionFails(s) \/ Blazor!SessionEnds(s)
      PROVE  BlazorInv'
  BY <1>5, SessionStartsKeeps, SessionFailsKeeps, SessionEndsKeeps
<1>6. CASE Blazor!OtherSessionStarts
  BY <1>6, OtherSessionStartsKeeps
<1>7. ASSUME NEW list \in stops, Blazor!StopNext(list)
      PROVE  BlazorInv'
  BY <1>7, StopNextKeeps
<1> QED
  BY <1>1, <1>2, <1>3, <1>4, <1>5, <1>6, <1>7 DEF Blazor!Next

\* The invariant of the launches is one of the services.
LEMMA ServicesBlazorInv == ServicesSpec => []BlazorInv
<1>1. BlazorInv /\ [ServicesNext]_servicesVars => BlazorInv'
  <2> SUFFICES ASSUME BlazorInv, [ServicesNext]_servicesVars
               PROVE  BlazorInv'
    OBVIOUS
  <2>1. CASE Blazor!Next
    BY <2>1, BlazorNextKeeps
  <2>2. CASE UNCHANGED blazorVars
    BY <2>2, SameBlazor
  <2> QED
    BY <2>1, <2>2 DEF ServicesNext, servicesVars
<1> QED
  BY <1>1, InitBlazorInv, PTL DEF ServicesSpec

\* "captures sessions started during a Blazor debug launch so they can all be torn
\* down together when any one terminates" (blazorDebugConfigurationProvider.ts:70), and
\* a URL has one bridge that listens at most (:618-631), for any launches and sessions.
THEOREM TeardownCorrect == ServicesSpec => []EndTogether
<1>1. BlazorInv => EndTogether
  <2> SUFFICES ASSUME BlazorInv
               PROVE  EndTogether
    OBVIOUS
  <2> USE DEF BlazorInv
  <2>1. DOMAIN sessions = Numbers /\ \A s \in Numbers : sessions[s] \in DebugSession
    BY DEF BlazorTypes, Numbers
  <2>2. Blazor!ToSet(tracked) = {tracked[i] : i \in 1 .. Len(tracked)}
    BY DEF BlazorTypes, Blazor!ToSet
  <2>3. \A list \in stops : list \in Seq(Numbers) /\ list # <<>>
                            /\ Blazor!ToSet(list) = {list[i] : i \in 1 .. Len(list)}
    BY DEF BlazorTypes, Blazor!ToSet
  <2>4. Blazor!TypeOK
    <3>1. Blazor!ToSet(tracked) \subseteq Numbers
      BY <2>2 DEF BlazorTypes
    <3>2. \A list \in stops : list # <<>> /\ Blazor!ToSet(list) \subseteq Numbers
      BY <2>3
    <3>3. \A s \in Numbers : sessions[s] \in
              [kind : {"app", "browser", "managed", "other"}, by : Launches \cup {NoLaunch},
               parent : 0 .. MaxSessions, state : {"starting", "running", "ended", "failed"}]
      BY <2>1 DEF DebugSession
    <3> QED
      BY <2>1, <3>1, <3>2, <3>3 DEF Blazor!TypeOK, BlazorTypes, Places, Blazor!Ids
  <2>5. ASSUME NEW l \in Launches \ crossed, NEW s \in Numbers, NEW t \in Numbers,
               sessions[s].by = l, sessions[t].by = l,
               sessions[s].state = "ended", sessions[t].state = "running"
        PROVE  t \in late \/ \E list \in stops : t \in Blazor!ToSet(list)
    <3>1. Live(l)
      BY <2>5 DEF Live
    <3>2. ~isTrackingSessions
      BY <2>5, <3>1 DEF Torn
    <3>3. ~Tracked(t)
      BY <3>2 DEF Torn, Tracked
    <3>4. t \in late \/ ToBeStopped(t)
      BY <2>5, <3>3 DEF Torn
    <3> QED
      BY <2>3, <3>4 DEF ToBeStopped
  <2>6. ASSUME NEW l \in Launches \ crossed, NEW s \in Numbers, sessions[s].by = l, sessions[s].parent # 0
        PROVE  sessions[sessions[s].parent].by = l
    BY <2>6 DEF Parents
  <2>7. Blazor!EndTogether
    BY <2>1, <2>5, <2>6 DEF Blazor!EndTogether, Blazor!SessionsOf, Blazor!Ids, Blazor!InState
  <2> QED
    BY <2>4, <2>7 DEF EndTogether
<1> QED
  BY <1>1, ServicesBlazorInv, PTL
=============================================================================
