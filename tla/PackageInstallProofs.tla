------------------------- MODULE PackageInstallProofs -------------------------
(***************************************************************************)
(* Proofs about PackageInstall, for any windows, packages, archives and    *)
(* number of closes: what has a Lock file is whole on disk, and the        *)
(* debugger is launched only with a package of it installed.               *)
(*                                                                         *)
(* Neither is inductive.  That a Lock file is written on a whole package   *)
(* needs the files handed out so far to be on disk, on their way or lost   *)
(* (WholeFiles), which another window that unpacks the same package at the *)
(* same time disturbs only with a write of its own, or with one it loses;  *)
(* and what is on its way was validated (ValidWrites, Downloaded).         *)
(***************************************************************************)
EXTENDS PackageInstall, FiniteSetTheorems, WellFoundedInduction, TLAPS

\* The result "installed" of the debugger's id is of a package with a Lock file.
Results ==
    \A w \in Windows :
        /\ status[w][Debugger] = "installed" => DebuggerPackages \cap lock # {}
        /\ pc[w] \in {"ready", "debugging"} => status[w][Debugger] = "installed"

\* From its Begin file on the folder of a package exists.
FolderMade ==
    \A w \in Windows :
        pc[w] \in {"download", "fallback", "extract", "lock", "hung"} => Current(w) \in folder

\* What is on its way to the disk was validated.
ValidWrites ==
    \A w \in Windows : \A x \in writes[w] : x[1] \in Checked => x[3] = "good"

\* What is unpacked was validated, and all of it is unpacked before the Lock file.
Downloaded ==
    \A w \in Windows :
        /\ pc[w] = "extract" => Valid(Current(w), buffer[w])
        /\ pc[w] = "lock" => next[w] = NFiles + 1

\* A file is on disk as it was published, about to be, or its write was lost.
Whole(p, f) ==
    \/ content[p][f] = "good"
    \/ \E w \in Windows : <<p, f, "good">> \in writes[w]
    \/ <<p, f>> \in lost

\* The files of what is locked are whole, and so are the files that a window has
\* handed out of the package it is at.
WholeFiles ==
    /\ \A p \in lock \cap Checked : \A f \in Files : Whole(p, f)
    /\ \A w \in Windows :
          pc[w] \in {"extract", "lock"} /\ Current(w) \in Checked =>
              \A f \in 1 .. next[w] - 1 : Whole(Current(w), f)

IInv == TypeOK /\ FolderMade /\ Results /\ ValidWrites /\ Downloaded /\ WholeFiles

-----------------------------------------------------------------------------
\* The numbers among the constants.
LEMMA Numbers == NFiles \in Nat \ {0} /\ MaxCloses \in Nat
BY ConstantsAssumption

\* The packages are those of the list, and each has an id.
LEMMA PackageFacts ==
    /\ Packages = {PackageList[i] : i \in DOMAIN PackageList}
    /\ Len(PackageList) \in Nat /\ DOMAIN PackageList = 1 .. Len(PackageList)
    /\ Wanted \subseteq Packages
    /\ \A p \in Packages : IdOf[p] \in Ids
    /\ Debugger \in Ids
BY ConstantsAssumption DEF Packages, ToSet, Wanted, Ids

\* A set of indices has a smallest one: the part of the set below an index is
\* smallest, as a set, for it.
LEMMA SmallestIndex ==
    ASSUME NEW n \in Nat, NEW S \in SUBSET (1 .. n), S # {}
    PROVE  \E i \in S : \A j \in S : i <= j
<1>. DEFINE Below(i) == {j \in S : j <= i}
            Belows == {Below(i) : i \in S}
<1>1. IsFiniteSet(S)
  <2>1. IsFiniteSet(1 .. n)
      BY FS_Interval
  <2>. QED BY <2>1, FS_Subset
<1>2. Belows \subseteq FiniteSubsetsOf(S) /\ Belows # {}
  <2>1. \A i \in S : Below(i) \in SUBSET S
      OBVIOUS
  <2>2. \A i \in S : IsFiniteSet(Below(i))
      BY <1>1, <2>1, FS_Subset
  <2>. HIDE DEF Below
  <2>. QED BY <2>1, <2>2 DEF FiniteSubsetsOf
<1>3. \E x \in Belows : \A y \in Belows : ~ (<<y, x>> \in StrictSubsetOrdering(S))
    BY <1>2, FS_StrictSubsetOrderingWellFounded, WFMin
<1>4. PICK i \in S : \A j \in S : ~ (<<Below(j), Below(i)>> \in StrictSubsetOrdering(S))
    BY <1>3
<1>5. ASSUME NEW j \in S, ~(i <= j) PROVE FALSE
  <2>1. Below(j) \subseteq Below(i) /\ i \in Below(i) /\ i \notin Below(j)
    <3>1. S \subseteq Int /\ j < i /\ i <= i
        BY <1>5
    <3>2. \A k \in S : k <= j => k <= i
        BY <3>1
    <3>. QED BY <1>5, <3>1, <3>2
  <2>2. Below(j) \in SUBSET S /\ Below(i) \in SUBSET S
      OBVIOUS
  <2>. HIDE DEF Below
  <2>3. <<Below(j), Below(i)>> \in StrictSubsetOrdering(S)
      BY <2>1, <2>2 DEF StrictSubsetOrdering
  <2>. QED BY <1>4, <2>3
<1>. QED BY <1>5

\* The package a window is at is one it has still to install.
LEMMA CurrentLeft ==
    ASSUME NEW w \in Windows, todo[w] # {}, todo[w] \subseteq Wanted
    PROVE  Current(w) \in todo[w] /\ Current(w) \in Wanted /\ Current(w) \in Packages
<1>. DEFINE left == {i \in DOMAIN PackageList : PackageList[i] \in todo[w]}
<1>1. left \in SUBSET (1 .. Len(PackageList)) /\ left # {}
    BY PackageFacts
<1>2. \E i \in left : \A j \in left : i <= j
    BY <1>1, PackageFacts, SmallestIndex
<1>3. (CHOOSE i \in left : \A j \in left : i <= j) \in left
    BY <1>2
<1>. QED BY <1>3, PackageFacts DEF Current

-----------------------------------------------------------------------------
\* Before a window is opened every variable has its type.
LEMMA InitType == Init => TypeOK
<1>1. 1 \in 1 .. NFiles + 1 /\ 0 \in 0 .. MaxCloses
    BY Numbers
<1>2. ASSUME Init PROVE status \in [Windows -> [Ids -> {"none", "installed", "failed"}]]
    BY <1>2 DEF Init, NoResult
<1>3. ASSUME Init PROVE content \in [Packages -> [Files -> {"none", "partial"} \cup Buffers]]
    BY <1>3 DEF Init
<1>4. ASSUME Init
      PROVE  /\ pc \in [Windows -> Idle \cup Installing \cup {"activate"}]
             /\ todo \in [Windows -> SUBSET Wanted]
             /\ \A w \in Windows : pc[w] \in Installing <=> todo[w] # {}
    BY <1>4 DEF Init, Idle, Installing
<1>5. ASSUME Init
      PROVE  /\ invalid \in [Windows -> 0 .. 1] /\ buffer \in [Windows -> Buffers]
             /\ next \in [Windows -> 1 .. NFiles + 1]
             /\ writes \in [Windows -> SUBSET (Packages \X Files \X Buffers)]
    BY <1>1, <1>5 DEF Init, Buffers
<1>. QED BY <1>1, <1>2, <1>3, <1>4, <1>5 DEF Init, TypeOK

\* While a window installs, it is at a package.
LEMMA CurrentAt ==
    ASSUME TypeOK, NEW w \in Windows, pc[w] \in Installing
    PROVE  Current(w) \in todo[w] /\ Current(w) \in Wanted /\ Current(w) \in Packages
               /\ IdOf[Current(w)] \in Ids
<1>1. todo[w] # {} /\ todo[w] \subseteq Wanted
    BY DEF TypeOK
<1>. QED BY <1>1, CurrentLeft, PackageFacts

\* The catch clause of the loop keeps the types.
LEMMA FailedType ==
    ASSUME TypeOK, NEW w \in Windows, pc[w] \in Installing, Failed(w)
    PROVE  /\ status' \in [Windows -> [Ids -> {"none", "installed", "failed"}]]
           /\ pc' \in [Windows -> Idle \cup Installing \cup {"activate"}]
           /\ \A v \in Windows : pc'[v] \in Installing <=> pc[v] \in Installing
<1>1. IdOf[Current(w)] \in Ids
    BY CurrentAt
<1>. QED BY <1>1 DEF Failed, SetStatus, TypeOK, Installing, Idle

\* So does the arrival of a download.
LEMMA ArrivedType ==
    ASSUME TypeOK, NEW w \in Windows, pc[w] \in Installing, NEW b \in Buffers, Arrived(w, b)
    PROVE  /\ status' \in [Windows -> [Ids -> {"none", "installed", "failed"}]]
           /\ pc' \in [Windows -> Idle \cup Installing \cup {"activate"}]
           /\ \A v \in Windows : pc'[v] \in Installing <=> pc[v] \in Installing
           /\ invalid' \in [Windows -> 0 .. 1]
           /\ buffer' \in [Windows -> Buffers]
           /\ next' \in [Windows -> 1 .. NFiles + 1]
<1>1. IdOf[Current(w)] \in Ids
    BY CurrentAt
<1>2. CASE Valid(Current(w), b)
  <2>1. 1 \in 1 .. NFiles + 1
      BY Numbers
  <2>. QED BY <1>2, <2>1 DEF Arrived, TypeOK, Installing, Idle
<1>3. CASE ~Valid(Current(w), b)
  <2>1. invalid' \in [Windows -> 0 .. 1]
    <3>1. invalid[w] + 1 < MaxTries => invalid[w] + 1 \in 0 .. 1
        BY DEF TypeOK, MaxTries
    <3>. QED BY <1>3, <3>1 DEF Arrived, TypeOK
  <2>2. status' \in [Windows -> [Ids -> {"none", "installed", "failed"}]]
    <3>1. SetStatus(w, "failed")
        BY <1>3 DEF Arrived
    <3>. QED BY <1>1, <3>1 DEF SetStatus, TypeOK
  <2>3. /\ pc' \in [Windows -> Idle \cup Installing \cup {"activate"}]
        /\ \A v \in Windows : pc'[v] \in Installing <=> pc[v] \in Installing
    <3>1. \E t \in {"download", "finally"} : pc' = [pc EXCEPT ![w] = t]
        BY <1>3 DEF Arrived
    <3>. QED BY <3>1 DEF TypeOK, Installing, Idle
  <2>4. buffer' \in [Windows -> Buffers] /\ next' \in [Windows -> 1 .. NFiles + 1]
      BY <1>3 DEF Arrived, TypeOK
  <2>. QED BY <2>1, <2>2, <2>3, <2>4
<1>. QED BY <1>2, <1>3

\* Writes that are lost cut files, whose types stay.
LEMMA LoseType ==
    ASSUME TypeOK, NEW w \in Windows, NEW unwritten \in SUBSET writes[w], Lose(w, unwritten)
    PROVE  /\ writes' \in [Windows -> SUBSET (Packages \X Files \X Buffers)]
           /\ lost' \in SUBSET (Packages \X Files)
           /\ content' \in [Packages -> [Files -> {"none", "partial"} \cup Buffers]]
<1>1. \A x \in unwritten : x \in Packages \X Files \X Buffers
    BY DEF TypeOK
<1>2. {<<x[1], x[2]>> : x \in unwritten} \in SUBSET (Packages \X Files)
    BY <1>1
<1>3. writes' \in [Windows -> SUBSET (Packages \X Files \X Buffers)]
    BY DEF Lose, TypeOK
<1>4. lost' \in SUBSET (Packages \X Files)
    BY <1>2 DEF Lose, TypeOK
<1>5. PICK cut \in SUBSET {<<x[1], x[2]>> : x \in unwritten} :
          content' = [p \in Packages |-> [f \in Files |->
                         IF <<p, f>> \in cut THEN "partial" ELSE content[p][f]]]
    BY DEF Lose
<1>6. content' \in [Packages -> [Files -> {"none", "partial"} \cup Buffers]]
    BY <1>5 DEF TypeOK
<1>. QED BY <1>3, <1>4, <1>6

\* Every action keeps the types.
LEMMA NextType ==
    ASSUME TypeOK, FolderMade, [Next]_vars
    PROVE  TypeOK'
<1>. USE DEF disk, install
<1>1. CASE UNCHANGED vars
    BY <1>1 DEF TypeOK, vars
<1>2. ASSUME NEW w \in Windows, InstallRuntimeDependencies(w)
      PROVE  TypeOK'
    BY <1>2 DEF InstallRuntimeDependencies, TypeOK, NotInstalled, Wanted, Installing, Idle
<1>3. ASSUME NEW w \in Windows, TouchBegin(w)
      PROVE  TypeOK'
  <2>1. pc[w] \in Installing /\ Current(w) \in Packages
      BY <1>3, CurrentAt DEF TouchBegin, Installing
  <2>. QED BY <1>3, <2>1 DEF TouchBegin, TypeOK, Installing, Idle
<1>4. ASSUME NEW w \in Windows, TouchBeginFails(w)
      PROVE  TypeOK'
  <2>1. pc[w] \in Installing /\ Current(w) \in Packages
      BY <1>4, CurrentAt DEF TouchBeginFails, Installing
  <2>. QED BY <1>4, <2>1, FailedType DEF TouchBeginFails, TypeOK
<1>5. ASSUME NEW w \in Windows, Download(w) \/ DownloadFallback(w)
      PROVE  TypeOK'
  <2>1. pc[w] \in Installing
      BY <1>5 DEF Download, DownloadFallback, Installing
  <2>2. CASE \E b \in Buffers : Arrived(w, b)
      BY <1>5, <2>1, <2>2, ArrivedType DEF Download, DownloadFallback, TypeOK
  <2>3. CASE Failed(w) /\ UNCHANGED <<invalid, buffer, next>>
      BY <1>5, <2>1, <2>3, FailedType DEF Download, DownloadFallback, TypeOK
  <2>4. CASE /\ pc' = [pc EXCEPT ![w] = "fallback"]
             /\ UNCHANGED <<status, invalid, buffer, next>>
      BY <1>5, <2>1, <2>4 DEF Download, DownloadFallback, TypeOK, Installing, Idle
  <2>. QED BY <1>5, <2>2, <2>3, <2>4 DEF Download, DownloadFallback
<1>6. ASSUME NEW w \in Windows, ExtractFile(w)
      PROVE  TypeOK'
  <2>1. pc[w] \in Installing /\ Current(w) \in Packages
      BY <1>6, CurrentAt DEF ExtractFile, Installing
  <2>2. content' \in [Packages -> [Files -> {"none", "partial"} \cup Buffers]]
      BY <1>6, <2>1 DEF ExtractFile, TypeOK
  <2>3. next' \in [Windows -> 1 .. NFiles + 1]
      BY <1>6, Numbers DEF ExtractFile, TypeOK, Files
  <2>4. writes' \in [Windows -> SUBSET (Packages \X Files \X Buffers)]
      BY <1>6, <2>1 DEF ExtractFile, TypeOK
  <2>. QED BY <1>6, <2>2, <2>3, <2>4 DEF ExtractFile, TypeOK
<1>7. ASSUME NEW w \in Windows, ExtractFails(w)
      PROVE  TypeOK'
  <2>1. pc[w] \in Installing
      BY <1>7 DEF ExtractFails, Installing
  <2>. QED BY <1>7, <2>1, FailedType DEF ExtractFails, TypeOK
<1>8. ASSUME NEW w \in Windows, ZipEnds(w)
      PROVE  TypeOK'
    BY <1>8 DEF ZipEnds, TypeOK, Installing, Idle
<1>9. ASSUME NEW w \in Windows, Written(w)
      PROVE  TypeOK'
  <2>1. PICK x \in writes[w] :
             /\ \E c \in {x[3], "partial"} : content' = [content EXCEPT ![x[1]][x[2]] = c]
             /\ writes' = [writes EXCEPT ![w] = @ \ {x}]
             /\ UNCHANGED <<folder, begin, lock, complete, pc, install, closes, lost>>
      BY <1>9 DEF Written
  <2>2. x[1] \in Packages /\ x[2] \in Files /\ x[3] \in Buffers
      BY DEF TypeOK
  <2>3. content' \in [Packages -> [Files -> {"none", "partial"} \cup Buffers]]
      BY <2>1, <2>2 DEF TypeOK
  <2>. QED BY <2>1, <2>3 DEF TypeOK
<1>10. ASSUME NEW w \in Windows, WriteFails(w)
       PROVE  TypeOK'
  <2>1. PICK x \in writes[w] :
             /\ Lose(w, {x})
             /\ \/ pc[w] = "extract" /\ pc' = [pc EXCEPT ![w] = "hung"]
                \/ UNCHANGED pc
             /\ UNCHANGED <<folder, begin, lock, complete, install, closes>>
      BY <1>10 DEF WriteFails
  <2>2. /\ writes' \in [Windows -> SUBSET (Packages \X Files \X Buffers)]
        /\ lost' \in SUBSET (Packages \X Files)
        /\ content' \in [Packages -> [Files -> {"none", "partial"} \cup Buffers]]
      BY <2>1, LoseType
  <2>. QED BY <2>1, <2>2 DEF TypeOK, Installing, Idle
<1>11. ASSUME NEW w \in Windows, TouchLock(w)
       PROVE  TypeOK'
  <2>1. pc[w] \in Installing
      BY <1>11 DEF TouchLock, Installing
  <2>2. Current(w) \in folder /\ IdOf[Current(w)] \in Ids
      BY <1>11, <2>1, CurrentAt DEF TouchLock, FolderMade
  <2>. QED BY <1>11, <2>2 DEF TouchLock, SetStatus, TypeOK, Installing, Idle
<1>12. ASSUME NEW w \in Windows, TouchLockFails(w)
       PROVE  TypeOK'
  <2>1. pc[w] \in Installing
      BY <1>12 DEF TouchLockFails, Installing
  <2>. QED BY <1>12, <2>1, FailedType DEF TouchLockFails, TypeOK
<1>13. ASSUME NEW w \in Windows, Finally(w)
       PROVE  TypeOK'
  <2>1. 1 \in 1 .. NFiles + 1 /\ "good" \in Buffers
      BY Numbers DEF Buffers
  <2>. QED BY <1>13, <2>1 DEF Finally, TypeOK, Installing, Idle
<1>14. ASSUME NEW w \in Windows, ActivateDebugger(w) \/ LaunchDebugger(w)
       PROVE  TypeOK'
    BY <1>14 DEF ActivateDebugger, LaunchDebugger, CompleteDebuggerInstall, TypeOK, Installing, Idle
<1>15. ASSUME NEW w \in Windows, Close(w)
       PROVE  TypeOK'
  <2>1. 1 \in 1 .. NFiles + 1 /\ "good" \in Buffers /\ closes' \in 0 .. MaxCloses
      BY <1>15, Numbers DEF Buffers, Close, TypeOK
  <2>2. /\ writes' \in [Windows -> SUBSET (Packages \X Files \X Buffers)]
        /\ lost' \in SUBSET (Packages \X Files)
        /\ content' \in [Packages -> [Files -> {"none", "partial"} \cup Buffers]]
      BY <1>15, LoseType DEF Close
  <2>3. status' \in [Windows -> [Ids -> {"none", "installed", "failed"}]]
      BY <1>15 DEF Close, TypeOK, NoResult
  <2>4. /\ pc' \in [Windows -> Idle \cup Installing \cup {"activate"}]
        /\ todo' \in [Windows -> SUBSET Wanted]
        /\ \A v \in Windows : pc'[v] \in Installing <=> todo'[v] # {}
      BY <1>15 DEF Close, TypeOK, Installing, Idle
  <2>. QED BY <1>15, <2>1, <2>2, <2>3, <2>4 DEF Close, TypeOK
<1>. QED BY <1>1, <1>2, <1>3, <1>4, <1>5, <1>6, <1>7, <1>8, <1>9, <1>10, <1>11, <1>12, <1>13,
            <1>14, <1>15 DEF Next, Step

-----------------------------------------------------------------------------
\* A step of the window w.
Acts(w) ==
    \/ InstallRuntimeDependencies(w) \/ Step(w) \/ WriteFails(w) \/ LaunchDebugger(w) \/ Close(w)

\* A step of the system is one of a window.
LEMMA NextActs == Next <=> \E w \in Windows : Acts(w)
BY DEF Next, Acts

\* A window stays at its package while its list stays.
LEMMA SameCurrent ==
    ASSUME NEW w \in Windows, todo'[w] = todo[w]
    PROVE  Current(w)' = Current(w)
BY DEF Current

\* Windows change nothing of each other.
LEMMA OthersKeep ==
    ASSUME TypeOK, NEW w \in Windows, Acts(w), NEW v \in Windows \ {w}
    PROVE  /\ pc'[v] = pc[v] /\ todo'[v] = todo[v] /\ writes'[v] = writes[v]
           /\ buffer'[v] = buffer[v] /\ next'[v] = next[v] /\ status'[v] = status[v]
           /\ Current(v)' = Current(v)
<1>. USE DEF TypeOK, disk, install, Failed, SetStatus
<1>1. /\ pc'[v] = pc[v] /\ todo'[v] = todo[v] /\ writes'[v] = writes[v]
      /\ buffer'[v] = buffer[v] /\ next'[v] = next[v] /\ status'[v] = status[v]
  <2>1. CASE InstallRuntimeDependencies(w) \/ LaunchDebugger(w) \/ Close(w)
      BY <2>1 DEF InstallRuntimeDependencies, LaunchDebugger, Close, Lose
  <2>2. CASE TouchBegin(w) \/ TouchBeginFails(w) \/ TouchLock(w) \/ TouchLockFails(w) \/ Finally(w)
      BY <2>2 DEF TouchBegin, TouchBeginFails, TouchLock, TouchLockFails, Finally
  <2>3. CASE ExtractFile(w) \/ ExtractFails(w) \/ ZipEnds(w) \/ ActivateDebugger(w)
      BY <2>3 DEF ExtractFile, ExtractFails, ZipEnds, ActivateDebugger
  <2>4. CASE Written(w) \/ WriteFails(w)
      BY <2>4 DEF Written, WriteFails, Lose
  <2>5. CASE Download(w) \/ DownloadFallback(w)
      BY <2>5 DEF Download, DownloadFallback, Arrived
  <2>. QED BY <2>1, <2>2, <2>3, <2>4, <2>5 DEF Acts, Step
<1>. QED BY <1>1, SameCurrent

\* The stages of a package follow each other.
LEMMA Stages ==
    ASSUME TypeOK, NEW w \in Windows, Acts(w)
    PROVE  /\ folder \subseteq folder' /\ lock \subseteq lock'
           /\ pc'[w] \in {"download", "fallback", "extract", "lock", "hung", "finally"} =>
                 todo'[w] = todo[w] /\ Current(w)' = Current(w) /\ pc[w] \in Installing
           /\ pc'[w] \in {"download", "fallback", "extract", "lock", "hung"} =>
                 \/ pc[w] \in {"download", "fallback", "extract", "lock", "hung"}
                 \/ Current(w) \in folder'
<1>. USE DEF TypeOK, disk, install, Failed, SetStatus, Installing
<1>1. CASE InstallRuntimeDependencies(w) \/ LaunchDebugger(w) \/ Close(w)
    BY <1>1 DEF InstallRuntimeDependencies, LaunchDebugger, Close
<1>2. CASE TouchBegin(w) \/ TouchBeginFails(w) \/ TouchLock(w) \/ TouchLockFails(w)
    BY <1>2, SameCurrent DEF TouchBegin, TouchBeginFails, TouchLock, TouchLockFails
<1>3. CASE ExtractFile(w) \/ ExtractFails(w) \/ ZipEnds(w)
    BY <1>3, SameCurrent DEF ExtractFile, ExtractFails, ZipEnds
<1>4. CASE Written(w) \/ WriteFails(w)
    BY <1>4, SameCurrent DEF Written, WriteFails
<1>5. CASE Download(w) \/ DownloadFallback(w)
    BY <1>5, SameCurrent DEF Download, DownloadFallback, Arrived
<1>6. CASE Finally(w) \/ ActivateDebugger(w)
    BY <1>6 DEF Finally, ActivateDebugger
<1>. QED BY <1>1, <1>2, <1>3, <1>4, <1>5, <1>6 DEF Acts, Step

\* The folder of a package stays.
LEMMA NextFolderMade ==
    ASSUME TypeOK, FolderMade, NEW w \in Windows, Acts(w)
    PROVE  FolderMade'
BY OthersKeep, Stages DEF FolderMade

-----------------------------------------------------------------------------
\* A result is set to "installed" only after the Lock file, or for an id without a
\* package to install; the debugger is activated on such a result only.
LEMMA NextResults ==
    ASSUME TypeOK, Results, NEW w \in Windows, Acts(w)
    PROVE  Results'
<1>. USE DEF TypeOK, disk, install
<1>1. status'[w][Debugger] = "installed" =>
          status[w][Debugger] = "installed" \/ DebuggerPackages \cap lock' # {}
  <2>1. CASE InstallRuntimeDependencies(w)
    <3>1. PICK p \in Wanted : IdOf[p] = Debugger
        BY ConstantsAssumption
    <3>2. p \in Packages /\ p \in DebuggerPackages /\ Debugger \in Ids
        BY <3>1, PackageFacts DEF DebuggerPackages
    <3>3. status'[w][Debugger] =
              IF \E q \in NotInstalled : IdOf[q] = Debugger THEN "none" ELSE "installed"
        BY <2>1, <3>2 DEF InstallRuntimeDependencies
    <3>. QED BY <2>1, <3>1, <3>2, <3>3 DEF NotInstalled, InstallRuntimeDependencies
  <2>2. CASE TouchLock(w)
    <3>1. Current(w) \in Wanted /\ IdOf[Current(w)] \in Ids
        BY <2>2, CurrentAt DEF TouchLock, Installing
    <3>2. CASE IdOf[Current(w)] = Debugger
        BY <2>2, <3>1, <3>2 DEF TouchLock, DebuggerPackages
    <3>3. CASE IdOf[Current(w)] # Debugger
        BY <2>2, <3>1, <3>3, PackageFacts DEF TouchLock, SetStatus
    <3>. QED BY <3>2, <3>3
  <2>3. CASE SetStatus(w, "failed")
      BY <2>3 DEF SetStatus
  <2>4. CASE UNCHANGED status
      BY <2>4
  <2>5. CASE Close(w)
      BY <2>5, PackageFacts DEF Close, NoResult
  <2>. QED BY <2>1, <2>2, <2>3, <2>4, <2>5
        DEF Acts, Step, TouchBegin, TouchBeginFails, TouchLockFails, Finally, ExtractFile, ExtractFails,
            ZipEnds, ActivateDebugger, Written, WriteFails, Download, DownloadFallback, Arrived, Failed,
            LaunchDebugger
<1>2. pc'[w] \in {"ready", "debugging"} =>
          status'[w][Debugger] = "installed"
  <2>1. CASE ActivateDebugger(w) \/ LaunchDebugger(w)
      BY <2>1 DEF ActivateDebugger, LaunchDebugger, Results
  <2>2. CASE Written(w)
      BY <2>2 DEF Written, Results
  <2>3. CASE WriteFails(w)
      BY <2>3 DEF WriteFails, Results
  <2>4. CASE pc'[w] \notin {"ready", "debugging"}
      BY <2>4
  <2>5. CASE \/ InstallRuntimeDependencies(w) \/ Close(w) \/ TouchBegin(w) \/ TouchBeginFails(w)
             \/ TouchLock(w) \/ TouchLockFails(w) \/ Finally(w)
             \/ ExtractFile(w) \/ ExtractFails(w) \/ ZipEnds(w)
      BY <2>5 DEF InstallRuntimeDependencies, Close, TouchBegin, TouchBeginFails, TouchLock,
                  TouchLockFails, Finally, ExtractFile, ExtractFails, ZipEnds, Failed
  <2>6. CASE Download(w) \/ DownloadFallback(w)
      BY <2>6 DEF Download, DownloadFallback, Arrived, Failed
  <2>. QED BY <2>1, <2>2, <2>3, <2>5, <2>6 DEF Acts, Step
<1>3. lock \subseteq lock'
    BY Stages
<1>4. ASSUME NEW v \in Windows
      PROVE  /\ status'[v][Debugger] = "installed" => DebuggerPackages \cap lock' # {}
             /\ pc'[v] \in {"ready", "debugging"} => status'[v][Debugger] = "installed"
  <2>1. CASE v = w
      BY <1>1, <1>2, <1>3, <2>1 DEF Results
  <2>2. CASE v # w
      BY <1>3, <2>2, OthersKeep DEF Results
  <2>. QED BY <2>1, <2>2
<1>. QED BY <1>4 DEF Results

\* Only a valid download is unpacked, to its end.
LEMMA NextDownloaded ==
    ASSUME TypeOK, Downloaded, NEW w \in Windows, Acts(w)
    PROVE  Downloaded'
<1>. USE DEF TypeOK, disk, install
<1>1. pc'[w] = "extract" => Valid(Current(w), buffer'[w])
  <2>1. CASE \E b \in Buffers : Arrived(w, b)
      BY <2>1 DEF Arrived, Failed
  <2>2. CASE Failed(w)
      BY <2>2 DEF Failed
  <2>3. CASE pc'[w] = pc[w] /\ UNCHANGED buffer
      BY <2>3 DEF Downloaded
  <2>4. CASE pc'[w] # "extract"
      BY <2>4
  <2>5. CASE InstallRuntimeDependencies(w) \/ LaunchDebugger(w) \/ Close(w) \/ Finally(w) \/ ActivateDebugger(w)
      BY <2>5 DEF InstallRuntimeDependencies, LaunchDebugger, Close, Finally, ActivateDebugger
  <2>6. CASE TouchBegin(w) \/ TouchBeginFails(w) \/ TouchLock(w) \/ TouchLockFails(w) \/ ExtractFails(w) \/ ZipEnds(w)
      BY <2>2, <2>6 DEF TouchBegin, TouchBeginFails, TouchLock, TouchLockFails, ExtractFails, ZipEnds
  <2>7. CASE ExtractFile(w) \/ Written(w)
      BY <2>3, <2>7 DEF ExtractFile, Written
  <2>8. CASE WriteFails(w)
      BY <2>3, <2>8 DEF WriteFails
  <2>9. CASE Download(w) \/ DownloadFallback(w)
      BY <2>1, <2>2, <2>9 DEF Download, DownloadFallback
  <2>. QED BY <2>5, <2>6, <2>7, <2>8, <2>9 DEF Acts, Step
<1>2. pc'[w] = "lock" => next'[w] = NFiles + 1
  <2>1. CASE ZipEnds(w)
      BY <2>1 DEF ZipEnds
  <2>2. CASE Failed(w)
      BY <2>2 DEF Failed
  <2>3. CASE pc'[w] = pc[w] /\ UNCHANGED next
      BY <2>3 DEF Downloaded
  <2>5. CASE InstallRuntimeDependencies(w) \/ LaunchDebugger(w) \/ Close(w) \/ Finally(w) \/ ActivateDebugger(w)
      BY <2>5 DEF InstallRuntimeDependencies, LaunchDebugger, Close, Finally, ActivateDebugger
  <2>6. CASE TouchBegin(w) \/ TouchBeginFails(w) \/ TouchLock(w) \/ TouchLockFails(w) \/ ExtractFails(w) \/ ExtractFile(w)
      BY <2>2, <2>6 DEF TouchBegin, TouchBeginFails, TouchLock, TouchLockFails, ExtractFails, ExtractFile
  <2>7. CASE Written(w) \/ WriteFails(w)
      BY <2>3, <2>7 DEF Written, WriteFails
  <2>9. CASE Download(w) \/ DownloadFallback(w)
      BY <2>2, <2>9 DEF Download, DownloadFallback, Arrived, Failed
  <2>. QED BY <2>1, <2>5, <2>6, <2>7, <2>9 DEF Acts, Step
<1>3. pc'[w] = "extract" => Current(w)' = Current(w)
    BY Stages
<1>4. ASSUME NEW v \in Windows
      PROVE  /\ pc'[v] = "extract" => Valid(Current(v)', buffer'[v])
             /\ pc'[v] = "lock" => next'[v] = NFiles + 1
  <2>1. CASE v = w
      BY <1>1, <1>2, <1>3, <2>1
  <2>2. CASE v # w
      BY <2>2, OthersKeep DEF Downloaded
  <2>. QED BY <2>1, <2>2
<1>. QED BY <1>4 DEF Downloaded, Valid

\* What a window hands out it has validated.
LEMMA NextValidWrites ==
    ASSUME TypeOK, ValidWrites, Downloaded, NEW w \in Windows, Acts(w)
    PROVE  ValidWrites'
<1>. USE DEF TypeOK, disk, install
<1>1. \A x \in writes'[w] : x[1] \in Checked => x[3] = "good"
  <2>1. CASE ExtractFile(w)
    <3>1. Current(w) \in Checked => buffer[w] = "good"
        BY <2>1 DEF ExtractFile, Downloaded, Valid
    <3>2. writes'[w] = writes[w] \cup {<<Current(w), next[w], buffer[w]>>}
        BY <2>1 DEF ExtractFile
    <3>. QED BY <3>1, <3>2 DEF ValidWrites
  <2>2. CASE writes'[w] \subseteq writes[w]
      BY <2>2 DEF ValidWrites
  <2>3. CASE Written(w) \/ WriteFails(w) \/ Close(w)
    <3>1. \E unwritten : writes' = [writes EXCEPT ![w] = @ \ unwritten]
        BY <2>3 DEF Written, WriteFails, Close, Lose
    <3>. QED BY <2>2, <3>1
  <2>. QED BY <2>1, <2>2, <2>3
        DEF Acts, Step, InstallRuntimeDependencies, LaunchDebugger, TouchBegin, TouchBeginFails, TouchLock,
            TouchLockFails, Finally, ActivateDebugger, ExtractFails, ZipEnds, Download, DownloadFallback
<1>2. \A v \in Windows \ {w} : writes'[v] = writes[v]
    BY OthersKeep
<1>. QED BY <1>1, <1>2 DEF ValidWrites

-----------------------------------------------------------------------------
\* A window locks the package it is at.
LEMMA Locks ==
    ASSUME TypeOK, NEW w \in Windows, Acts(w)
    PROVE  TouchLock(w) \/ lock' = lock
<1>. USE DEF TypeOK, disk, install, Failed
<1>1. CASE Written(w) \/ WriteFails(w)
    BY <1>1 DEF Written, WriteFails
<1>2. CASE Download(w) \/ DownloadFallback(w)
    BY <1>2 DEF Download, DownloadFallback, Arrived
<1>. QED BY <1>1, <1>2
      DEF Acts, Step, InstallRuntimeDependencies, LaunchDebugger, TouchBegin, TouchBeginFails, TouchLock,
          TouchLockFails, Finally, ActivateDebugger, ExtractFile, ExtractFails, ZipEnds, Close

-----------------------------------------------------------------------------
\* A file stays whole, whatever window writes it or loses a write of it.
LEMMA WholeStays ==
    ASSUME TypeOK, ValidWrites, Downloaded, NEW w \in Windows, Acts(w),
           NEW p \in Checked, NEW f \in Files, Whole(p, f)
    PROVE  Whole(p, f)'
<1>. USE DEF TypeOK, disk, install
<1>1. p \in Packages
    BY ConstantsAssumption
<1>2. CASE UNCHANGED <<content, writes, lost>>
    BY <1>2 DEF Whole
<1>3. CASE ExtractFile(w)
  <2>1. Current(w) \in Packages
      BY <1>3, CurrentAt DEF ExtractFile, Installing
  <2>2. CASE p = Current(w) /\ f = next[w]
    <3>1. buffer[w] = "good"
        BY <1>3, <2>2 DEF Downloaded, Valid, ExtractFile
    <3>. QED BY <1>3, <2>2, <3>1 DEF Whole, ExtractFile
  <2>3. CASE ~(p = Current(w) /\ f = next[w])
    <3>1. content'[p][f] = content[p][f]
        BY <1>1, <1>3, <2>1, <2>3 DEF ExtractFile
    <3>2. \A v \in Windows : writes[v] \subseteq writes'[v]
        BY <1>3 DEF ExtractFile
    <3>3. <<p, f>> \in lost => <<p, f>> \in lost'
        BY <1>3, <2>3 DEF ExtractFile
    <3>. QED BY <3>1, <3>2, <3>3 DEF Whole
  <2>. QED BY <2>2, <2>3
<1>4. CASE Written(w)
  <2>1. PICK x \in writes[w] : \E c \in {x[3], "partial"} :
            /\ content' = [content EXCEPT ![x[1]][x[2]] = c]
            /\ c = x[3] \/ <<x[1], x[2]>> \in lost
            /\ writes' = [writes EXCEPT ![w] = @ \ {x}]
            /\ lost' = lost
      BY <1>4 DEF Written
  <2>2. x[1] \in Packages /\ x[2] \in Files /\ x = <<x[1], x[2], x[3]>>
      OBVIOUS
  <2>3. CASE x[1] = p /\ x[2] = f
    <3>1. x[3] = "good"
        BY <2>3 DEF ValidWrites
    <3>2. content'[p][f] = "good" \/ <<p, f>> \in lost
        BY <1>1, <2>1, <2>3, <3>1
    <3>. QED BY <2>1, <3>2 DEF Whole
  <2>4. CASE ~(x[1] = p /\ x[2] = f)
    <3>1. content'[p][f] = content[p][f]
        BY <1>1, <2>1, <2>2, <2>4
    <3>2. \A v \in Windows : <<p, f, "good">> \in writes[v] => <<p, f, "good">> \in writes'[v]
        BY <2>1, <2>2, <2>4
    <3>. QED BY <2>1, <3>1, <3>2 DEF Whole
  <2>. QED BY <2>3, <2>4
<1>5. CASE Close(w) \/ WriteFails(w)
  <2>1. PICK unwritten \in SUBSET writes[w] : Lose(w, unwritten)
      BY <1>5 DEF Close, WriteFails
  <2>. DEFINE torn == {<<x[1], x[2]>> : x \in unwritten}
  <2>2. lost' = lost \cup torn /\ writes' = [writes EXCEPT ![w] = @ \ unwritten]
      BY <2>1 DEF Lose
  <2>3. CASE <<p, f>> \in torn
      BY <2>2, <2>3 DEF Whole
  <2>4. CASE <<p, f>> \notin torn
    <3>1. <<p, f, "good">> \notin unwritten
        BY <2>4
    <3>2. \A v \in Windows : <<p, f, "good">> \in writes[v] => <<p, f, "good">> \in writes'[v]
        BY <2>2, <3>1
    <3>3. content'[p][f] = content[p][f]
      <4>1. PICK cut \in SUBSET torn :
                content' = [q \in Packages |-> [g \in Files |->
                               IF <<q, g>> \in cut THEN "partial" ELSE content[q][g]]]
          BY <2>1 DEF Lose
      <4>2. <<p, f>> \notin cut
          BY <2>4
      <4>. QED BY <1>1, <4>1, <4>2
    <3>. QED BY <2>2, <3>2, <3>3 DEF Whole
  <2>. QED BY <2>3, <2>4
<1>. QED BY <1>2, <1>3, <1>4, <1>5
      DEF Acts, Step, InstallRuntimeDependencies, LaunchDebugger, TouchBegin, TouchBeginFails, TouchLock,
          TouchLockFails, Finally, ActivateDebugger, ExtractFails, ZipEnds, Download, DownloadFallback

\* The files of an archive are handed out one after the other.
LEMMA NextStages ==
    ASSUME TypeOK, NEW w \in Windows, Acts(w), ~WriteFails(w), pc'[w] \in {"extract", "lock"}
    PROVE  \/ pc[w] \in {"extract", "lock"} /\ next'[w] = next[w]
           \/ ExtractFile(w) /\ next'[w] = next[w] + 1
           \/ next'[w] = 1
<1>. USE DEF TypeOK, install, Failed
<1>1. CASE Download(w) \/ DownloadFallback(w)
    BY <1>1 DEF Download, DownloadFallback, Arrived
<1>2. CASE Written(w)
    BY <1>2 DEF Written
<1>3. CASE ExtractFile(w)
    BY <1>3 DEF ExtractFile
<1>. QED BY <1>1, <1>2, <1>3
      DEF Acts, Step, InstallRuntimeDependencies, LaunchDebugger, TouchBegin, TouchBeginFails, TouchLock,
          TouchLockFails, Finally, ActivateDebugger, ExtractFails, ZipEnds, Close

\* A package is whole when it is locked and stays so, however windows unpack it at
\* the same time.
LEMMA NextWholeFiles ==
    ASSUME TypeOK, TypeOK', ValidWrites, Downloaded, WholeFiles, NEW w \in Windows, Acts(w)
    PROVE  WholeFiles'
<1>1. ASSUME NEW p \in lock' \cap Checked, NEW f \in Files
      PROVE  Whole(p, f)'
  <2>1. CASE p \in lock
    <3>1. Whole(p, f)
        BY <1>1, <2>1 DEF WholeFiles
    <3>. QED BY <1>1, <3>1, WholeStays
  <2>2. CASE p \notin lock
    <3>1. TouchLock(w) /\ p = Current(w)
        BY <1>1, <2>2, Locks DEF TouchLock
    <3>2. f \in 1 .. next[w] - 1
        BY <3>1, Numbers DEF TouchLock, Downloaded, Files
    <3>3. Whole(p, f)
        BY <1>1, <3>1, <3>2 DEF WholeFiles, TouchLock
    <3>. QED BY <1>1, <3>3, WholeStays
  <2>. QED BY <2>1, <2>2
<1>2. ASSUME NEW v \in Windows, pc'[v] \in {"extract", "lock"}, Current(v)' \in Checked,
             NEW f \in 1 .. next'[v] - 1
      PROVE  Whole(Current(v), f)'
  <2>. f \in Files
    <3>1. next'[v] \in 1 .. NFiles + 1
        BY DEF TypeOK
    <3>. QED BY <1>2, <3>1, Numbers DEF Files
  <2>1. Current(v)' = Current(v)
      BY <1>2, OthersKeep, Stages
  <2>2. PICK p \in Checked : p = Current(v)
      BY <1>2, <2>1
  <2>3. CASE pc[v] \in {"extract", "lock"} /\ f \in 1 .. next[v] - 1
    <3>1. Whole(p, f)
        BY <2>2, <2>3 DEF WholeFiles
    <3>2. Whole(p, f)'
        BY <3>1, WholeStays
    <3>. QED BY <2>1, <2>2, <3>2 DEF Whole
  <2>4. CASE v = w /\ ExtractFile(w) /\ f = next[w]
    <3>1. buffer[w] = "good"
        BY <2>2, <2>4 DEF Downloaded, Valid, ExtractFile
    <3>2. <<p, f, "good">> \in writes'[w]
        BY <2>2, <2>4, <3>1 DEF ExtractFile, TypeOK
    <3>. QED BY <2>1, <2>2, <3>2 DEF Whole
  <2>5. CASE v = w
    <3>1. ~WriteFails(w) \/ (pc[w] \in {"extract", "lock"} /\ next'[w] = next[w])
        BY <1>2, <2>5 DEF WriteFails, TypeOK, install
    <3>2. \/ pc[w] \in {"extract", "lock"} /\ next'[w] = next[w]
          \/ ExtractFile(w) /\ next'[w] = next[w] + 1
          \/ next'[w] = 1
        BY <1>2, <2>5, <3>1, NextStages
    <3>3. next[w] \in Nat
        BY DEF TypeOK
    <3>. QED BY <1>2, <2>3, <2>4, <2>5, <3>2, <3>3 DEF ExtractFile
  <2>6. CASE v # w
      BY <1>2, <2>3, <2>6, OthersKeep
  <2>. QED BY <2>5, <2>6
<1>. QED BY <1>1, <1>2 DEF WholeFiles

-----------------------------------------------------------------------------
\* The invariant holds before the first window is opened.
LEMMA InitIInv == Init => IInv
<1>1. Init => Results
    BY PackageFacts DEF Init, Results, NoResult
<1>. QED BY <1>1, InitType
      DEF Init, IInv, FolderMade, ValidWrites, Downloaded, WholeFiles

\* The invariant is inductive.
LEMMA NextIInv == IInv /\ [Next]_vars => IInv'
<1> SUFFICES ASSUME IInv, [Next]_vars PROVE IInv'
    OBVIOUS
<1>1. TypeOK'
    BY NextType DEF IInv
<1>2. CASE UNCHANGED vars
  <2>1. \A w \in Windows : Current(w)' = Current(w)
      BY <1>2, SameCurrent DEF vars, install
  <2>. QED BY <1>1, <1>2, <2>1
        DEF IInv, vars, disk, install, FolderMade, Results, ValidWrites, Downloaded, WholeFiles,
            Whole, Valid
<1>3. ASSUME NEW w \in Windows, Acts(w) PROVE IInv'
    BY <1>1, <1>3, NextFolderMade, NextResults, NextValidWrites, NextDownloaded, NextWholeFiles DEF IInv
<1>. QED BY <1>2, <1>3, NextActs

\* The inductive invariant of PackageInstall.
THEOREM SpecIInv == Spec => []IInv
BY InitIInv, NextIInv, PTL DEF Spec

\* What has a Lock file, and so is never installed again, is whole but for files that are
\* still being written or whose write was lost with its window or failed, which the code
\* does not wait for: for any number of windows that install the same packages at the same
\* time, failing downloads, archives and folders, and windows killed at any step.
THEOREM LockedCorrect == Spec => []LockedIsWhole
<1>1. IInv => LockedIsWhole
    BY DEF IInv, WholeFiles, Whole, LockedIsWhole, BeingWritten
<1>. QED BY <1>1, SpecIInv, PTL

\* The debugger is launched only with a package of it installed, whatever windows
\* install, fail and are closed.
THEOREM LaunchCorrect == Spec => []LaunchMeansInstalled
<1>1. IInv => LaunchMeansInstalled
    BY DEF IInv, Results, LaunchMeansInstalled
<1>. QED BY <1>1, SpecIInv, PTL

OneDebuggerPackage == \A p, q \in DebuggerPackages : p = q
DebuggerIsWhole == \A w \in Windows : pc[w] = "debugging" => DebuggerPackages \subseteq lock

\* On a platform with one debugger package (all but Windows and macOS on arm64) the
\* whole debugger is installed when it is launched.
THEOREM OnePackageCorrect ==
    ASSUME OneDebuggerPackage
    PROVE  Spec => []DebuggerIsWhole
<1>1. LaunchMeansInstalled => DebuggerIsWhole
    BY DEF LaunchMeansInstalled, OneDebuggerPackage, DebuggerIsWhole
<1>. QED BY <1>1, LaunchCorrect, PTL
=============================================================================
