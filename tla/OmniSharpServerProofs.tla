------------------------- MODULE OmniSharpServerProofs -------------------------
(***************************************************************************)
(* Proofs about OmniSharpServer: the types whatever calls overlap, and, as *)
(* long as none do, one server process and the providers of its engine,    *)
(* for any callers and number of calls.                                    *)
(*                                                                         *)
(* What a call may find when it continues depends on what it awaits: that  *)
(* is the inductive invariant of calls that do not overlap (Alone).  The   *)
(* types need two facts of their own: the engines that calls and the state *)
(* hold were created, and there is one left for each call that may create  *)
(* one.                                                                    *)
(***************************************************************************)
EXTENDS OmniSharpServer, FiniteSetTheorems, TLAPS

\* The calls that wait for the 'started' event wait once each, and the event ends
\* the wait of all of them.
Waits ==
    /\ \A i \in 1 .. Len(loaders) : pc[loaders[i]] = "loading"
    /\ \A i, j \in 1 .. Len(loaders) : loaders[i] = loaders[j] => i = j
    /\ \A i \in 1 .. Len(ready) : pc[ready[i]] = "loading"
    /\ \A i, j \in 1 .. Len(ready) : ready[i] = ready[j] => i = j
    /\ ready # <<>> => loaders = <<>>

\* The engines that calls and the state hold were created.
Owns ==
    /\ \A c \in Callers : pc[c] \in {"locating", "launching", "loading", "stopping"} =>
           own[c] \in Engines /\ process[own[c]] # "none"
    /\ state = "Started" => process[engine] # "none"
    /\ \A c \in thenStart : pc[c] = "stopping"

\* The calls that may yet create an engine: one each.
Creators == {c \in Callers : pc[c] = "validating" \/ c \in thenStart}

EnginesLeft ==
    /\ IsFiniteSet(Creators)
    /\ \E n \in Nat : /\ \A e \in Engines : process[e] # "none" <=> e <= n
                      /\ n + Cardinality(Creators) <= calls

\* What holds while calls do not overlap.
Alone ==
    /\ \A c, d \in Callers : pc[c] # "idle" /\ pc[d] # "idle" => c = d
    /\ Running \subseteq attached
    /\ \A e, f \in attached : e = f
    /\ state = "Stopped" => attached = {}
    /\ state = "Started" => attached = {engine}
    /\ registered = IF state = "Started" THEN {engine} ELSE {}
    /\ registrations = engine
    /\ \A c \in Callers :
          /\ pc[c] = "validating" => state = "Stopped"
          /\ pc[c] \in {"locating", "launching"} => state = "Starting" /\ attached = {}
          /\ pc[c] = "loading" => state = "Starting" /\ attached = {own[c]}
          /\ pc[c] = "stopping" => state = "Started" /\ own[c] = engine

Sequential == overlapped \/ Alone

\* The inductive invariant.
IInv == TypeOK /\ Waits /\ Owns /\ EnginesLeft /\ Sequential

-----------------------------------------------------------------------------
\* Engines are numbered from 1, and NoEngine is none of them.
LEMMA CallsAreNumbers == MaxCalls \in Nat /\ Engines \subseteq Nat \ {0} /\ NoEngine \notin Engines
BY CallAssumption DEF Engines, NoEngine

\* The server starts Stopped, with no engine.
LEMMA InitIInv == Init => IInv
<1> SUFFICES ASSUME Init PROVE IInv
    OBVIOUS
<1>1. TypeOK
  <2>1. calls \in 0 .. MaxCalls
      BY CallsAreNumbers DEF Init
  <2>2. state = "Stopped" /\ engine \in {NoEngine}
      BY DEF Init
  <2>3. /\ pc \in [Callers -> Labels]
        /\ own \in [Callers -> Engines \cup {NoEngine}]
        /\ process \in [Engines -> {"none", "created", "running", "dead"}]
      BY DEF Init, Labels
  <2>4. overlapped \in BOOLEAN
      BY DEF Init
  <2>5. /\ state \in {"Stopped", "Starting", "Started"}
        /\ engine \in IF state = "Started" THEN Engines ELSE {NoEngine}
      BY <2>2
  <2>6. /\ thenStart \subseteq Callers /\ loaders \in Seq(Callers) /\ ready \in Seq(Callers)
        /\ attached \subseteq Engines /\ announced \subseteq Engines /\ registered \subseteq Engines
        /\ registrations \in Engines \cup {NoEngine}
      BY DEF Init
  <2>. QED BY <2>1, <2>3, <2>4, <2>5, <2>6 DEF TypeOK
<1>2. Waits /\ Owns
    BY DEF Init, Waits, Owns
<1>3. EnginesLeft
  <2>1. Creators = {} /\ calls = 0 /\ \A e \in Engines : process[e] = "none" /\ ~(e <= 0)
      BY CallsAreNumbers DEF Init, Creators
  <2>2. IsFiniteSet(Creators) /\ Cardinality(Creators) = 0
      BY <2>1, FS_EmptySet
  <2>. QED BY <2>1, <2>2 DEF EnginesLeft
<1>4. Sequential
    BY DEF Init, Sequential, Alone, Running
<1>. QED BY <1>1, <1>2, <1>3, <1>4 DEF IInv

\* A step that makes no call able to create an engine leaves enough of them.
LEMMA NoNewCreator ==
    ASSUME EnginesLeft, calls \in Nat, calls' \in Nat, calls <= calls',
           Creators' \subseteq Creators,
           \A e \in Engines : process'[e] = "none" <=> process[e] = "none"
    PROVE  EnginesLeft'
<1>1. IsFiniteSet(Creators') /\ Cardinality(Creators') <= Cardinality(Creators)
    BY FS_Subset DEF EnginesLeft
<1>2. Cardinality(Creators) \in Nat /\ Cardinality(Creators') \in Nat
    BY <1>1, FS_CardinalityType DEF EnginesLeft
<1>3. PICK n \in Nat : /\ \A e \in Engines : process[e] # "none" <=> e <= n
                       /\ n + Cardinality(Creators) <= calls
    BY DEF EnginesLeft
<1>4. n + Cardinality(Creators') <= calls'
    BY <1>1, <1>2, <1>3
<1>. QED BY <1>1, <1>3, <1>4 DEF EnginesLeft

\* A new call may create one.
LEMMA NewCall ==
    ASSUME EnginesLeft, calls \in Nat, calls' = calls + 1, NEW c \in Callers,
           Creators' \subseteq Creators \cup {c}, process' = process
    PROVE  EnginesLeft'
<1>1. /\ IsFiniteSet(Creators \cup {c})
      /\ Cardinality(Creators \cup {c}) = IF c \in Creators THEN Cardinality(Creators) ELSE Cardinality(Creators) + 1
    BY FS_AddElement DEF EnginesLeft
<1>2. IsFiniteSet(Creators') /\ Cardinality(Creators') <= Cardinality(Creators \cup {c})
    BY <1>1, FS_Subset
<1>3. Cardinality(Creators) \in Nat /\ Cardinality(Creators') \in Nat
    BY <1>2, FS_CardinalityType DEF EnginesLeft
<1>4. PICK n \in Nat : /\ \A e \in Engines : process[e] # "none" <=> e <= n
                       /\ n + Cardinality(Creators) <= calls
    BY DEF EnginesLeft
<1>5. n + Cardinality(Creators') <= calls'
    BY <1>1, <1>2, <1>3, <1>4
<1>. QED BY <1>2, <1>4, <1>5 DEF EnginesLeft

\* What the calls made by a caller leave alone.
LEMMA CallingFacts ==
    ASSUME IInv, NEW c \in Callers, Calling(c)
    PROVE  /\ ready = <<>> /\ pc[c] = "idle" /\ c \notin thenStart
           /\ calls \in Nat /\ calls' = calls + 1 /\ calls' \in 0 .. MaxCalls
           /\ overlapped' \in BOOLEAN
           /\ overlapped' \/ (Alone /\ \A d \in Callers : pc[d] = "idle")
<1>1. calls \in 0 .. MaxCalls /\ MaxCalls \in Nat /\ overlapped \in BOOLEAN
    BY CallsAreNumbers DEF IInv, TypeOK
<1>2. /\ ready = <<>> /\ pc[c] = "idle" /\ c \notin thenStart
      /\ calls \in Nat /\ calls' = calls + 1 /\ calls' \in 0 .. MaxCalls
    BY <1>1 DEF IInv, Calling, Owns
<1>3. overlapped' = (overlapped \/ \E d \in Callers : pc[d] # "idle")
    BY DEF Calling
<1>4. CASE overlapped
    BY <1>2, <1>3, <1>4
<1>5. CASE ~overlapped
    BY <1>2, <1>3, <1>5 DEF IInv, Sequential
<1>. QED BY <1>4, <1>5

-----------------------------------------------------------------------------
\* start, stop and restart up to their first await.
LEMMA CallsKeep ==
    ASSUME IInv, NEW c \in Callers, Start(c) \/ StartRefused(c) \/ Restart(c)
    PROVE  IInv'
<1>1. /\ ready = <<>> /\ pc[c] = "idle" /\ c \notin thenStart
      /\ calls \in Nat /\ calls' = calls + 1 /\ calls' \in 0 .. MaxCalls
      /\ overlapped' \in BOOLEAN
      /\ overlapped' \/ (Alone /\ \A d \in Callers : pc[d] = "idle")
    BY CallingFacts DEF Start, StartRefused, Restart
<1>2. TypeOK
    BY DEF IInv
<1>3. /\ UNCHANGED <<serverVars, loaders, ready, engineVars, providerVars>>
      /\ \E l \in {"validating", "stopping", "refused", "alreadyRunning"} :
            /\ pc' = [pc EXCEPT ![c] = l]
            /\ l = "validating" => state = "Stopped"
            /\ IF l = "stopping"
               THEN /\ state = "Started" /\ own' = [own EXCEPT ![c] = engine]
                    /\ thenStart' = thenStart \cup {c}
               ELSE UNCHANGED <<own, thenStart>>
    BY <1>2 DEF Start, StartRefused, Restart, MayStart, Goto, BeginStop, TypeOK
<1>4. PICK l \in {"validating", "stopping", "refused", "alreadyRunning"} :
            /\ pc' = [pc EXCEPT ![c] = l]
            /\ l = "validating" => state = "Stopped"
            /\ IF l = "stopping"
               THEN /\ state = "Started" /\ own' = [own EXCEPT ![c] = engine]
                    /\ thenStart' = thenStart \cup {c}
               ELSE UNCHANGED <<own, thenStart>>
    BY <1>3
<1>5. TypeOK'
    BY <1>1, <1>2, <1>3, <1>4 DEF TypeOK, Labels, serverVars, engineVars, providerVars
<1>6. Waits'
    BY <1>1, <1>2, <1>3, <1>4 DEF IInv, Waits, TypeOK
<1>7. Owns'
    BY <1>1, <1>2, <1>3, <1>4 DEF IInv, Owns, TypeOK, serverVars, engineVars
<1>8. EnginesLeft'
  <2>1. Creators' \subseteq Creators \cup {c}
      BY <1>2, <1>4 DEF Creators, TypeOK
  <2>. QED BY <1>1, <1>3, <2>1, NewCall DEF IInv, engineVars
<1>9. Sequential'
  <2> SUFFICES ASSUME Alone, \A d \in Callers : pc[d] = "idle"
               PROVE  Alone'
      BY <1>1 DEF Sequential
  <2>. QED BY <1>1, <1>2, <1>3, <1>4 DEF Alone, TypeOK, Running, serverVars, engineVars, providerVars
<1>. QED BY <1>5, <1>6, <1>7, <1>8, <1>9 DEF IInv

\* The engine of a validated start is the next one.
LEMMA NextEngine ==
    ASSUME IInv, NEW c \in Callers, pc[c] = "validating"
    PROVE  LET next == CHOOSE e \in Engines :
                          /\ process[e] = "none"
                          /\ \A f \in Engines : process[f] = "none" => e <= f
           IN  /\ next \in Engines /\ process[next] = "none"
               /\ \A f \in Engines : process[f] = "none" => next <= f
<1>1. PICK n \in Nat : /\ \A e \in Engines : process[e] # "none" <=> e <= n
                       /\ n + Cardinality(Creators) <= calls
    BY DEF IInv, EnginesLeft
<1>2. c \in Creators /\ IsFiniteSet(Creators)
    BY DEF Creators, IInv, EnginesLeft
<1>3. Cardinality(Creators) \in Nat /\ Cardinality(Creators) # 0
    BY <1>2, FS_CardinalityType, FS_EmptySet
<1>4. n + 1 \in Engines
    BY <1>1, <1>3, CallsAreNumbers DEF IInv, TypeOK, Engines
<1>5. process[n + 1] = "none" /\ \A f \in Engines : process[f] = "none" => n + 1 <= f
    BY <1>1, <1>4, CallsAreNumbers
<1>. QED BY <1>4, <1>5

\* The requirements are missing, or the next engine is created and the state Starting.
LEMMA ValidatedKeeps ==
    ASSUME IInv, NEW c \in Callers, NEW b \in BOOLEAN, Validated(c, b)
    PROVE  IInv'
<1>1. /\ ready = <<>> /\ pc[c] = "validating"
      /\ UNCHANGED <<calls, overlapped, thenStart, loaders, ready, attached, announced, providerVars>>
    BY DEF Validated, At
<1>2. TypeOK /\ c \notin thenStart /\ calls \in Nat /\ MaxCalls \in Nat
    BY <1>1, CallsAreNumbers DEF IInv, Owns, TypeOK
<1>3. CASE ~b
  <2>1. pc' = [pc EXCEPT ![c] = "idle"] /\ UNCHANGED <<serverVars, own, process>>
      BY <1>3 DEF Validated, Goto
  <2>2. TypeOK'
      BY <1>1, <1>2, <2>1 DEF TypeOK, Labels, serverVars, providerVars
  <2>3. Waits' /\ Owns'
      BY <1>1, <1>2, <2>1 DEF IInv, Waits, Owns, TypeOK, serverVars
  <2>4. EnginesLeft'
    <3>1. Creators' \subseteq Creators
        BY <1>1, <1>2, <2>1 DEF Creators, TypeOK
    <3>. QED BY <1>1, <1>2, <2>1, <3>1, NoNewCreator DEF IInv
  <2>5. Sequential'
      BY <1>1, <1>2, <2>1 DEF IInv, Sequential, Alone, TypeOK, Running, serverVars, providerVars
  <2>. QED BY <2>2, <2>3, <2>4, <2>5 DEF IInv
<1>4. CASE b
  <2>1. PICK e \in Engines : /\ process[e] = "none" /\ \A f \in Engines : process[f] = "none" => e <= f
                             /\ pc' = [pc EXCEPT ![c] = "locating"]
                             /\ state' = "Starting" /\ engine' = IF state = "Starting" THEN engine ELSE NoEngine
                             /\ own' = [own EXCEPT ![c] = e]
                             /\ process' = [process EXCEPT ![e] = "created"]
    <3>1. PICK e \in Engines :
            /\ process[e] = "none" /\ \A f \in Engines : process[f] = "none" => e <= f
            /\ e = CHOOSE x \in Engines : /\ process[x] = "none"
                                          /\ \A f \in Engines : process[f] = "none" => x <= f
        BY <1>1, NextEngine
    <3>2. own' = [own EXCEPT ![c] = e] /\ process' = [process EXCEPT ![own'[c]] = "created"]
        BY <1>4, <3>1 DEF Validated
    <3>3. own'[c] = e
        BY <1>2, <3>2 DEF TypeOK
    <3>. QED BY <1>4, <3>1, <3>2, <3>3 DEF Validated, Goto, SetState
  <2>2. engine' = NoEngine
      BY <1>2, <2>1 DEF TypeOK
  <2>3. TypeOK'
      BY <1>1, <1>2, <2>1, <2>2 DEF TypeOK, Labels, providerVars
  <2>4. Waits' /\ Owns'
      BY <1>1, <1>2, <2>1 DEF IInv, Waits, Owns, TypeOK
  <2>5. EnginesLeft'
    <3>1. PICK n \in Nat : /\ \A f \in Engines : process[f] # "none" <=> f <= n
                           /\ n + Cardinality(Creators) <= calls
        BY DEF IInv, EnginesLeft
    <3>2. Creators' = Creators \ {c} /\ c \in Creators
        BY <1>1, <1>2, <2>1 DEF Creators, TypeOK
    <3>3. /\ IsFiniteSet(Creators') /\ Cardinality(Creators') = Cardinality(Creators) - 1
        BY <3>2, FS_RemoveElement DEF IInv, EnginesLeft
    <3>4. Cardinality(Creators) \in Nat /\ Cardinality(Creators) # 0
        BY <3>2, FS_CardinalityType, FS_EmptySet DEF IInv, EnginesLeft
    <3>5. n + 1 \in Engines
        BY <1>2, <3>1, <3>4 DEF TypeOK, Engines
    <3>6. e = n + 1
        BY <2>1, <3>1, <3>5, CallsAreNumbers
    <3>7. \A f \in Engines : process'[f] # "none" <=> f <= n + 1
        BY <1>2, <2>1, <3>1, <3>6, CallsAreNumbers DEF TypeOK
    <3>8. n + 1 \in Nat /\ n + 1 + Cardinality(Creators') <= calls'
        BY <1>1, <1>2, <3>1, <3>3, <3>4
    <3>. QED BY <3>3, <3>7, <3>8 DEF EnginesLeft
  <2>6. Sequential'
      BY <1>1, <1>2, <2>1, <2>2 DEF IInv, Sequential, Alone, TypeOK, Running, providerVars
  <2>. QED BY <2>3, <2>4, <2>5, <2>6 DEF IInv
<1>. QED BY <1>3, <1>4

\* The launch path is found or not; a refused call is dismissed.
LEMMA LocatedKeeps ==
    ASSUME IInv, NEW c \in Callers, (\E b \in BOOLEAN : Located(c, b)) \/ Dismiss(c)
    PROVE  IInv'
<1>1. PICK l \in {"launching", "idle"} :
        /\ pc' = [pc EXCEPT ![c] = l]
        /\ pc[c] \in IF l = "launching" THEN {"locating"} ELSE {"locating", "refused", "alreadyRunning"}
        /\ ready = <<>>
        /\ UNCHANGED <<calls, overlapped, serverVars, own, thenStart, loaders, ready, engineVars, providerVars>>
    BY DEF Located, Dismiss, At, Goto
<1>2. TypeOK /\ c \notin thenStart /\ calls \in Nat
    BY <1>1 DEF IInv, Owns, TypeOK
<1>3. TypeOK'
    BY <1>1, <1>2 DEF TypeOK, Labels, serverVars, engineVars, providerVars
<1>4. Waits' /\ Owns'
    BY <1>1, <1>2 DEF IInv, Waits, Owns, TypeOK, serverVars, engineVars
<1>5. EnginesLeft'
  <2>1. Creators' \subseteq Creators
      BY <1>1, <1>2 DEF Creators, TypeOK
  <2>. QED BY <1>1, <1>2, <2>1, NoNewCreator DEF IInv, engineVars
<1>6. Sequential'
    BY <1>1, <1>2 DEF IInv, Sequential, Alone, TypeOK, Running, serverVars, engineVars, providerVars
<1>. QED BY <1>3, <1>4, <1>5, <1>6 DEF IInv

\* The other listeners keep their order.
LEMMA WithoutFacts ==
    ASSUME NEW s \in Seq(Callers), NEW i \in 1 .. Len(s),
           \A j, k \in 1 .. Len(s) : s[j] = s[k] => j = k
    PROVE  /\ Without(s, i) \in Seq(Callers)
           /\ \A j \in 1 .. Len(Without(s, i)) :
                 /\ Without(s, i)[j] # s[i]
                 /\ \E k \in 1 .. Len(s) : Without(s, i)[j] = s[k]
           /\ \A j, k \in 1 .. Len(Without(s, i)) : Without(s, i)[j] = Without(s, i)[k] => j = k
<1>1. Len(s) \in Nat /\ Len(s) - 1 \in Nat
    OBVIOUS
<1>2. \A j \in 1 .. Len(s) - 1 : (IF j < i THEN s[j] ELSE s[j + 1]) \in Callers
    OBVIOUS
<1>3. Without(s, i) \in Seq(Callers) /\ Len(Without(s, i)) = Len(s) - 1
    BY <1>1, <1>2 DEF Without
<1>4. \A j \in 1 .. Len(s) - 1 : Without(s, i)[j] = IF j < i THEN s[j] ELSE s[j + 1]
    BY DEF Without
<1>5. ASSUME NEW j \in 1 .. Len(s) - 1
      PROVE  /\ Without(s, i)[j] # s[i]
             /\ \E k \in 1 .. Len(s) : Without(s, i)[j] = s[k]
  <2>1. CASE j < i
      BY <1>1, <1>4, <2>1
  <2>2. CASE ~(j < i)
    <3>1. j + 1 \in 1 .. Len(s) /\ j + 1 # i
        BY <1>1, <2>2
    <3>. QED BY <1>4, <2>2, <3>1
  <2>. QED BY <2>1, <2>2
<1>6. ASSUME NEW j \in 1 .. Len(s) - 1, NEW k \in 1 .. Len(s) - 1, Without(s, i)[j] = Without(s, i)[k]
      PROVE  j = k
  <2> DEFINE at(x) == IF x < i THEN x ELSE x + 1
  <2>1. /\ at(j) \in 1 .. Len(s) /\ at(k) \in 1 .. Len(s)
        /\ Without(s, i)[j] = s[at(j)] /\ Without(s, i)[k] = s[at(k)]
      BY <1>1, <1>4
  <2>2. at(j) = at(k)
    <3>. HIDE DEF at
    <3>. QED BY <1>6, <2>1
  <2>. QED BY <2>2
<1>. QED BY <1>3, <1>5, <1>6

\* A start that failed or took too long stops, which does nothing while the state
\* is Starting.
LEMMA StartFailsKeeps ==
    ASSUME IInv, NEW c \in Callers, Launched(c, FALSE) \/ LoadTimeout(c)
    PROVE  IInv'
<1>1. /\ pc[c] \in {"launching", "loading"} /\ BeginStop(c) /\ ready = <<>>
      /\ UNCHANGED <<calls, overlapped, serverVars, thenStart, ready, engineVars, providerVars>>
    BY DEF Launched, LoadTimeout, At, engineVars
<1>2. TypeOK /\ c \notin thenStart /\ calls \in Nat
    BY <1>1 DEF IInv, Owns, TypeOK
<1>3. /\ loaders' \in Seq(Callers)
      /\ \A j \in 1 .. Len(loaders') : /\ loaders'[j] # c
                                       /\ \E k \in 1 .. Len(loaders) : loaders'[j] = loaders[k]
      /\ \A j, k \in 1 .. Len(loaders') : loaders'[j] = loaders'[k] => j = k
  <2>1. CASE Launched(c, FALSE)
    <3>1. loaders' = loaders /\ pc[c] = "launching"
        BY <2>1 DEF Launched, At
    <3>. QED BY <1>2, <3>1 DEF IInv, Waits, TypeOK
  <2>2. CASE LoadTimeout(c)
    <3>1. PICK i \in 1 .. Len(loaders) : loaders[i] = c /\ loaders' = Without(loaders, i)
        BY <2>2 DEF LoadTimeout
    <3>2. loaders \in Seq(Callers) /\ \A j, k \in 1 .. Len(loaders) : loaders[j] = loaders[k] => j = k
        BY <1>2 DEF IInv, Waits, TypeOK
    <3>3. PICK s \in Seq(Callers) : s = loaders
        BY <3>2
    <3>4. /\ Without(s, i) \in Seq(Callers)
          /\ \A j \in 1 .. Len(Without(s, i)) :
                 /\ Without(s, i)[j] # s[i]
                 /\ \E k \in 1 .. Len(s) : Without(s, i)[j] = s[k]
          /\ \A j, k \in 1 .. Len(Without(s, i)) : Without(s, i)[j] = Without(s, i)[k] => j = k
      <4>1. i \in 1 .. Len(s) /\ \A j, k \in 1 .. Len(s) : s[j] = s[k] => j = k
          BY <3>2, <3>3
      <4>. QED BY <4>1, WithoutFacts
    <3>. QED BY <3>1, <3>3, <3>4
  <2>. QED BY <2>1, <2>2
<1>4. PICK l \in {"stopping", "idle"} :
        /\ pc' = [pc EXCEPT ![c] = l]
        /\ IF l = "stopping" THEN state = "Started" /\ own' = [own EXCEPT ![c] = engine]
           ELSE state # "Started" /\ own' = own
    BY <1>1 DEF BeginStop, Goto
<1>5. TypeOK'
    BY <1>1, <1>2, <1>3, <1>4 DEF TypeOK, Labels, serverVars, engineVars, providerVars
<1>6. Waits'
  <2>1. \A j \in 1 .. Len(loaders') : pc'[loaders'[j]] = "loading"
      BY <1>2, <1>3, <1>4 DEF IInv, Waits, TypeOK
  <2>. QED BY <1>1, <1>3, <2>1 DEF Waits
<1>7. Owns'
    BY <1>1, <1>2, <1>4 DEF IInv, Owns, TypeOK, serverVars, engineVars
<1>8. EnginesLeft'
  <2>1. Creators' \subseteq Creators
      BY <1>1, <1>2, <1>4 DEF Creators, TypeOK
  <2>. QED BY <1>1, <1>2, <2>1, NoNewCreator DEF IInv, engineVars
<1>9. Sequential'
    BY <1>1, <1>2, <1>4 DEF IInv, Sequential, Alone, TypeOK, Running, serverVars, engineVars, providerVars
<1>. QED BY <1>5, <1>6, <1>7, <1>8, <1>9 DEF IInv

\* The process runs, and the call waits for its event.
LEMMA LaunchedKeeps ==
    ASSUME IInv, NEW c \in Callers, Launched(c, TRUE)
    PROVE  IInv'
<1>1. /\ pc[c] = "launching" /\ ready = <<>>
      /\ pc' = [pc EXCEPT ![c] = "loading"]
      /\ process' = [process EXCEPT ![own[c]] = "running"]
      /\ attached' = attached \cup {own[c]}
      /\ loaders' = Append(loaders, c)
      /\ UNCHANGED <<calls, overlapped, own, serverVars, thenStart, ready, announced, providerVars>>
    BY DEF Launched, At, Goto
<1>2. /\ TypeOK /\ c \notin thenStart /\ calls \in Nat
      /\ own[c] \in Engines /\ process[own[c]] # "none"
    BY <1>1 DEF IInv, Owns, TypeOK
<1>3. TypeOK'
    BY <1>1, <1>2 DEF TypeOK, Labels, serverVars, providerVars
<1>4. Waits'
  <2>1. /\ Len(loaders) \in Nat /\ Len(loaders') = Len(loaders) + 1
        /\ \A i \in 1 .. Len(loaders') :
              loaders'[i] = IF i = Len(loaders) + 1 THEN c ELSE loaders[i]
      BY <1>1, <1>2 DEF TypeOK
  <2>2. \A i \in 1 .. Len(loaders) : loaders[i] # c /\ loaders[i] \in Callers /\ pc[loaders[i]] = "loading"
      BY <1>1, <1>2 DEF IInv, Waits, TypeOK
  <2>3. \A i \in 1 .. Len(loaders') : pc'[loaders'[i]] = "loading"
      BY <1>1, <1>2, <2>1, <2>2 DEF TypeOK
  <2>4. \A i, j \in 1 .. Len(loaders') : loaders'[i] = loaders'[j] => i = j
      BY <2>1, <2>2 DEF IInv, Waits
  <2>. QED BY <1>1, <2>3, <2>4 DEF Waits
<1>5. Owns'
    BY <1>1, <1>2 DEF IInv, Owns, TypeOK, serverVars
<1>6. EnginesLeft'
  <2>1. Creators' \subseteq Creators
      BY <1>1, <1>2 DEF Creators, TypeOK
  <2>2. \A e \in Engines : process'[e] = "none" <=> process[e] = "none"
      BY <1>1, <1>2 DEF TypeOK
  <2>. QED BY <1>1, <1>2, <2>1, <2>2, NoNewCreator DEF IInv
<1>7. Sequential'
  <2> SUFFICES ASSUME Alone PROVE Alone'
      BY <1>1 DEF IInv, Sequential
  <2>1. attached = {} /\ attached' = {own[c]} /\ state = "Starting"
      BY <1>1 DEF Alone
  <2>2. Running' \subseteq attached'
      BY <1>1, <1>2, <2>1 DEF Alone, TypeOK, Running
  <2>. QED BY <1>1, <1>2, <2>1, <2>2 DEF Alone, TypeOK, serverVars, providerVars
<1>. QED BY <1>3, <1>4, <1>5, <1>6, <1>7 DEF IInv

\* The event of a process, and the exit of one.
LEMMA ProcessesKeep ==
    ASSUME IInv, NEW e \in Engines, StartedEvent(e) \/ ProcessExit(e)
    PROVE  IInv'
<1>1. TypeOK /\ calls \in Nat
    BY DEF IInv, TypeOK
<1>2. CASE StartedEvent(e)
  <2>1. /\ ready = <<>> /\ announced' = announced \cup {e} /\ ready' = loaders /\ loaders' = <<>>
        /\ UNCHANGED <<serverVars, pc, own, thenStart, process, attached, providerVars, calls, overlapped>>
      BY <1>2 DEF StartedEvent
  <2>2. TypeOK'
      BY <1>1, <2>1 DEF TypeOK, serverVars, providerVars
  <2>3. Waits' /\ Owns'
      BY <1>1, <2>1 DEF IInv, Waits, Owns, serverVars
  <2>4. EnginesLeft' /\ Sequential'
      BY <2>1 DEF IInv, EnginesLeft, Creators, Sequential, Alone, Running, serverVars, providerVars
  <2>. QED BY <2>2, <2>3, <2>4 DEF IInv
<1>3. CASE ProcessExit(e)
  <2>1. /\ process[e] = "running" /\ process' = [process EXCEPT ![e] = "dead"]
        /\ UNCHANGED <<serverVars, pc, own, thenStart, loaders, ready, attached, announced, providerVars, calls, overlapped>>
      BY <1>3 DEF ProcessExit
  <2>2. TypeOK'
      BY <1>1, <2>1 DEF TypeOK, serverVars, providerVars
  <2>3. Waits' /\ Owns'
      BY <1>1, <2>1 DEF IInv, Waits, Owns, TypeOK, serverVars
  <2>4. EnginesLeft'
    <3>1. /\ Creators' \subseteq Creators
          /\ \A f \in Engines : process'[f] = "none" <=> process[f] = "none"
        BY <1>1, <2>1 DEF Creators, TypeOK
    <3>. QED BY <1>1, <2>1, <3>1, NoNewCreator DEF IInv
  <2>5. Sequential'
      BY <1>1, <2>1 DEF IInv, Sequential, Alone, TypeOK, Running, serverVars, providerVars
  <2>. QED BY <2>2, <2>3, <2>4, <2>5 DEF IInv
<1>. QED BY <1>2, <1>3

\* The first of the calls whose wait ended takes the state, or finds it taken.
LEMMA FinishStartKeeps ==
    ASSUME IInv, FinishStart
    PROVE  IInv'
<1>1. TypeOK /\ ready # <<>> /\ calls \in Nat
    BY DEF FinishStart, IInv, TypeOK
<1>2. PICK c \in Callers : c = Head(ready) /\ c = ready[1]
    BY <1>1 DEF TypeOK
<1>3. /\ pc' = [pc EXCEPT ![c] = "idle"] /\ state' = "Started"
      /\ engine' = IF state = "Started" THEN engine ELSE own[c]
      /\ registered' = registered \cup {engine'} /\ registrations' = engine'
      /\ ready' = Tail(ready)
      /\ UNCHANGED <<own, thenStart, loaders, engineVars, calls, overlapped>>
    BY <1>2 DEF FinishStart, Goto, SetState, RegisterProviders
<1>4. /\ Len(ready) \in Nat /\ Len(ready) > 0 /\ Len(ready') = Len(ready) - 1
      /\ ready' \in Seq(Callers)
      /\ \A i \in 1 .. Len(ready') : ready'[i] = ready[i + 1]
    BY <1>1, <1>3 DEF TypeOK
<1>5. pc[c] = "loading" /\ own[c] \in Engines /\ process[own[c]] # "none" /\ c \notin thenStart
    BY <1>1, <1>2, <1>4 DEF IInv, Waits, Owns
<1>6. engine' \in Engines /\ process[engine'] # "none"
    BY <1>1, <1>3, <1>5 DEF IInv, Owns, TypeOK
<1>7. TypeOK'
    BY <1>1, <1>3, <1>4, <1>6 DEF TypeOK, Labels, engineVars
<1>8. Waits'
  <2>1. \A i \in 1 .. Len(ready') : ready'[i] # c /\ ready'[i] \in Callers /\ pc[ready'[i]] = "loading"
      BY <1>1, <1>2, <1>4 DEF IInv, Waits, TypeOK
  <2>2. \A i \in 1 .. Len(ready') : pc'[ready'[i]] = "loading"
      BY <1>1, <1>3, <2>1 DEF TypeOK
  <2>3. \A i, j \in 1 .. Len(ready') : ready'[i] = ready'[j] => i = j
      BY <1>4 DEF IInv, Waits
  <2>4. loaders = <<>> /\ loaders' = <<>>
      BY <1>1, <1>3 DEF IInv, Waits
  <2>. QED BY <2>2, <2>3, <2>4 DEF Waits
<1>9. Owns'
    BY <1>1, <1>3, <1>5, <1>6 DEF IInv, Owns, TypeOK, engineVars
<1>10. EnginesLeft'
  <2>1. Creators' \subseteq Creators
      BY <1>1, <1>3 DEF Creators, TypeOK
  <2>. QED BY <1>1, <1>3, <2>1, NoNewCreator DEF IInv, engineVars
<1>11. Sequential'
  <2> SUFFICES ASSUME Alone PROVE Alone'
      BY <1>3 DEF IInv, Sequential
  <2>1. state = "Starting" /\ attached = {own[c]} /\ registered = {}
      BY <1>5 DEF Alone
  <2>2. engine' = own[c] /\ registered' = {engine'} /\ attached' = {engine'} /\ Running' = Running
      BY <1>3, <2>1 DEF engineVars, Running
  <2>. QED BY <1>1, <1>3, <1>5, <2>1, <2>2 DEF Alone, TypeOK, engineVars
<1>. QED BY <1>7, <1>8, <1>9, <1>10, <1>11 DEF IInv

\* The kill succeeds: the engine and its providers are gone, and a restart goes on.
LEMMA StoppedKeeps ==
    ASSUME IInv, NEW c \in Callers, Stopped(c)
    PROVE  IInv'
<1>1. TypeOK /\ calls \in Nat
    BY DEF IInv, TypeOK
<1>2. /\ pc[c] = "stopping" /\ own[c] \in Engines /\ process[own[c]] # "none" /\ ready = <<>>
      /\ process' = [process EXCEPT ![own[c]] = "dead"] /\ attached' = attached \ {own[c]}
      /\ state' = "Stopped" /\ engine' = IF state = "Stopped" THEN engine ELSE NoEngine
      /\ registered' = registered \ {registrations} /\ registrations' = NoEngine
      /\ pc' = [pc EXCEPT ![c] = IF c \in thenStart THEN "validating" ELSE "idle"]
      /\ thenStart' = thenStart \ {c}
      /\ UNCHANGED <<own, loaders, ready, announced, calls, overlapped>>
    BY DEF Stopped, At, Kill, SetState, Goto, IInv, Owns
<1>3. engine' = NoEngine
    BY <1>1, <1>2 DEF TypeOK
<1>4. TypeOK'
    BY <1>1, <1>2, <1>3 DEF TypeOK, Labels
<1>5. Waits'
    BY <1>1, <1>2 DEF IInv, Waits, TypeOK
<1>6. Owns'
    BY <1>1, <1>2 DEF IInv, Owns, TypeOK
<1>7. EnginesLeft'
  <2>1. Creators' \subseteq Creators
      BY <1>1, <1>2 DEF Creators, TypeOK
  <2>2. \A e \in Engines : process'[e] = "none" <=> process[e] = "none"
      BY <1>1, <1>2 DEF TypeOK
  <2>. QED BY <1>1, <1>2, <2>1, <2>2, NoNewCreator DEF IInv
<1>8. Sequential'
  <2> SUFFICES ASSUME Alone PROVE Alone'
      BY <1>2 DEF IInv, Sequential
  <2>1. /\ state = "Started" /\ own[c] = engine /\ attached = {engine}
        /\ registered = {engine} /\ registrations = engine
      BY <1>2 DEF Alone
  <2>2. attached' = {} /\ registered' = {}
      BY <1>2, <2>1
  <2>3. Running' = {}
      BY <1>1, <1>2, <2>1 DEF Alone, Running, TypeOK
  <2>4. \A d \in Callers : d # c => pc'[d] = "idle"
      BY <1>1, <1>2 DEF Alone, TypeOK
  <2>5. pc'[c] \in {"validating", "idle"}
      BY <1>1, <1>2 DEF TypeOK
  <2>. QED BY <1>2, <1>3, <2>2, <2>3, <2>4, <2>5 DEF Alone
<1>. QED BY <1>4, <1>5, <1>6, <1>7, <1>8 DEF IInv

\* The kill fails, and the server stays as it was.
LEMMA KillFailedKeeps ==
    ASSUME IInv, NEW c \in Callers, KillFailed(c)
    PROVE  IInv'
<1>1. TypeOK /\ calls \in Nat
    BY DEF IInv, TypeOK
<1>2. /\ pc[c] = "stopping" /\ ready = <<>>
      /\ pc' = [pc EXCEPT ![c] = "idle"] /\ thenStart' = thenStart \ {c}
      /\ UNCHANGED <<serverVars, own, loaders, ready, engineVars, providerVars, calls, overlapped>>
    BY DEF KillFailed, At, Goto
<1>3. TypeOK'
    BY <1>1, <1>2 DEF TypeOK, Labels, serverVars, engineVars, providerVars
<1>4. Waits' /\ Owns'
    BY <1>1, <1>2 DEF IInv, Waits, Owns, TypeOK, serverVars, engineVars
<1>5. EnginesLeft'
  <2>1. Creators' \subseteq Creators
      BY <1>1, <1>2 DEF Creators, TypeOK
  <2>. QED BY <1>1, <1>2, <2>1, NoNewCreator DEF IInv, engineVars
<1>6. Sequential'
    BY <1>1, <1>2 DEF IInv, Sequential, Alone, TypeOK, Running, serverVars, engineVars, providerVars
<1>. QED BY <1>3, <1>4, <1>5, <1>6 DEF IInv

-----------------------------------------------------------------------------
\* Every step of a call, of an event or of a process keeps the invariant.
LEMMA NextIInv == IInv /\ [Next]_vars => IInv'
<1> SUFFICES ASSUME IInv, [Next]_vars PROVE IInv'
    OBVIOUS
<1>1. ASSUME NEW c \in Callers, Start(c) \/ StartRefused(c) \/ Restart(c)
      PROVE  IInv'
    BY <1>1, CallsKeep
<1>2. ASSUME NEW c \in Callers, Continue(c)
      PROVE  IInv'
  <2>1. ASSUME NEW b \in BOOLEAN, Validated(c, b) PROVE IInv'
      BY <2>1, ValidatedKeeps
  <2>2. CASE (\E b \in BOOLEAN : Located(c, b)) \/ Dismiss(c)
      BY <2>2, LocatedKeeps
  <2>3. CASE Launched(c, FALSE) \/ LoadTimeout(c)
      BY <2>3, StartFailsKeeps
  <2>4. CASE Launched(c, TRUE)
      BY <2>4, LaunchedKeeps
  <2>5. CASE Stopped(c)
      BY <2>5, StoppedKeeps
  <2>6. CASE KillFailed(c)
      BY <2>6, KillFailedKeeps
  <2>. QED BY <1>2, <2>1, <2>2, <2>3, <2>4, <2>5, <2>6 DEF Continue
<1>3. CASE FinishStart
    BY <1>3, FinishStartKeeps
<1>4. ASSUME NEW e \in Engines, StartedEvent(e) \/ ProcessExit(e)
      PROVE  IInv'
    BY <1>4, ProcessesKeep
<1>5. CASE UNCHANGED vars
  <2>. USE <1>5 DEF vars, serverVars, engineVars, providerVars
  <2>1. TypeOK'
      BY DEF IInv, TypeOK
  <2>2. Waits' /\ Owns'
      BY DEF IInv, Waits, Owns
  <2>3. EnginesLeft'
      BY DEF IInv, EnginesLeft, Creators
  <2>4. Sequential'
      BY DEF IInv, Sequential, Alone, Running
  <2>. QED BY <2>1, <2>2, <2>3, <2>4 DEF IInv
<1>. QED BY <1>1, <1>2, <1>3, <1>4, <1>5 DEF Next

\* The invariant holds in every behaviour.
THEOREM SpecIInv == Spec => []IInv
<1>1. Init => IInv
    BY InitIInv
<1>2. IInv /\ [Next]_vars => IInv'
    BY NextIInv
<1>. QED BY <1>1, <1>2, PTL DEF Spec

\* The state, the engines and the calls keep their types whatever calls overlap, and
\* while none do at most one server process runs, which can be stopped (OneServer).
THEOREM OneServerCorrect == Spec => []OneServer
<1>1. ASSUME IInv PROVE OneServer
  <2>1. TypeOK /\ Sequential
      BY <1>1 DEF IInv
  <2>2. ASSUME Alone PROVE Cardinality(Running) <= 1 /\ RunningIsOwned
    <3>1. Running \subseteq attached /\ \A e, f \in Running : e = f
        BY <2>2 DEF Alone
    <3>2. Cardinality(Running) <= 1
      <4>1. CASE Running = {}
          BY <4>1, FS_EmptySet
      <4>2. CASE Running # {}
        <5>1. PICK e : Running = {e}
          <6>1. PICK e : e \in Running
              BY <4>2
          <6>2. Running = {e}
              BY <3>1, <6>1
          <6>. QED BY <6>2
        <5>2. Cardinality({e}) = 1
            BY FS_Singleton
        <5>. QED BY <5>1, <5>2
      <4>. QED BY <4>1, <4>2
    <3>3. RunningIsOwned
        BY <2>1, <2>2, <3>1 DEF Alone, TypeOK, RunningIsOwned
    <3>. QED BY <3>2, <3>3
  <2>. QED BY <2>1, <2>2 DEF OneServer, Sequential
<1>. QED BY <1>1, SpecIInv, PTL

\* While calls do not overlap, the providers registered are those of the engine the
\* state holds (ProvidersOfCurrentEngine).
THEOREM ProvidersCorrect == Spec => []ProvidersOfCurrentEngine
<1>1. IInv => ProvidersOfCurrentEngine
    BY DEF IInv, Sequential, Alone, ProvidersOfCurrentEngine
<1>. QED BY <1>1, SpecIInv, PTL
=============================================================================
