--------------------------- MODULE PackageInstall ---------------------------
(* Installation of the extension's dependencies when a VS Code window
   activates it, and the start of the debugger from what was installed.

   The windows of one user share the extension's folder: each reads which
   packages carry an install.Lock file, downloads and unpacks the others one
   after the other, and may be closed, or be killed, between any two steps.  The
   state on disk outlives the windows and is all that coordinates them.

   Entry points modelled: installRuntimeDependencies (installRuntimeDependencies.ts),
   getNotInstalledPackagesForPlatform (packageFilterer.ts),
   downloadAndInstallPackages, DownloadFile, isValidDownload, InstallZip
   (packageManager/), activate, completeDebuggerInstall and
   createDebugAdapterDescriptor (coreclrDebug/activate.ts).

   No caller of downloadAndInstallPackages passes a cancellation token, so a
   download is never cancelled.                                              *)
EXTENDS Naturals, Sequences, FiniteSets, SequencesExt

CONSTANTS
    Windows,        \* VS Code windows of the user
    PackageList,    \* packages of the platform with a required id, in their order in package.json
    IdOf,           \* the "id" of a package; several packages may have one id
    Debugger,       \* the id of the debugger packages
    Unused,         \* packages filterOmniSharpPackage drops: of the other .NET flavour
    Checked,        \* packages with an "integrity" hash
    WithFallback,   \* packages with a "fallbackUrl"
    NFiles,         \* files in the archive of a package
    MaxCloses       \* bound: how often windows are closed or killed

Packages == ToSet(PackageList)
Wanted == Packages \ Unused
Ids == {IdOf[p] : p \in Packages}
Files == 1 .. NFiles
DebuggerPackages == {p \in Wanted : IdOf[p] = Debugger}

ASSUME ConstantsAssumption ==
    /\ PackageList \in Seq(Packages) /\ IsInjective(PackageList)
    /\ DOMAIN IdOf = Packages
    /\ Unused \subseteq Packages
    /\ Checked \subseteq Packages
    /\ WithFallback \subseteq Packages
    /\ Debugger \in {IdOf[p] : p \in Wanted}
    /\ NFiles \in Nat \ {0}
    /\ MaxCloses \in Nat

VARIABLES
    folder,     \* packages whose install folder exists
    begin,      \* packages with an install.Begin file
    lock,       \* packages with an install.Lock file
    content,    \* content[p][f]: what is on disk of file f of package p
    complete,   \* the debugger's install.complete file exists
    pc,         \* where the activation of a window is
    todo,       \* packages the window has still to install
    invalid,    \* downloads of the current package that failed validation
    buffer,     \* what the last download brought
    next,       \* the next file of the archive to extract
    writes,     \* files handed to the file system by the window and not yet written
    status,     \* the window's installation results, by package id
    closes,     \* windows closed so far
    lost        \* files whose last write ended with its window, or failed (history)

disk == <<folder, begin, lock, content, complete>>
install == <<todo, invalid, buffer, next, status>>
vars == <<disk, pc, install, writes, closes, lost>>

Buffers == {"good", "corrupt"}
Idle == {"closed", "ready", "noDebugger", "debugging"}
Installing == {"begin", "download", "fallback", "extract", "lock", "finally", "hung"}

\* The package a window is at: the first one that is left of the list.
Current(w) ==
    LET left == {i \in DOMAIN PackageList : PackageList[i] \in todo[w]}
    IN  PackageList[CHOOSE i \in left : \A j \in left : i <= j]

TypeOK ==
    /\ folder \subseteq Packages
    /\ begin \subseteq folder
    /\ lock \subseteq folder
    /\ content \in [Packages -> [Files -> {"none", "partial"} \cup Buffers]]
    /\ complete \in BOOLEAN
    /\ pc \in [Windows -> Idle \cup Installing \cup {"activate"}]
    /\ todo \in [Windows -> SUBSET Wanted]
    /\ \A w \in Windows : pc[w] \in Installing <=> todo[w] # {}
    /\ invalid \in [Windows -> 0 .. 1]
    /\ buffer \in [Windows -> Buffers]
    /\ next \in [Windows -> 1 .. NFiles + 1]
    /\ writes \in [Windows -> SUBSET (Packages \X Files \X Buffers)]
    /\ status \in [Windows -> [Ids -> {"none", "installed", "failed"}]]
    /\ closes \in 0 .. MaxCloses
    /\ lost \in SUBSET (Packages \X Files)

-----------------------------------------------------------------------------

NoResult == [i \in Ids |-> "none"]

Init ==
    /\ folder = {} /\ begin = {} /\ lock = {}
    /\ content = [p \in Packages |-> [f \in Files |-> "none"]]
    /\ complete = FALSE
    /\ pc = [w \in Windows |-> "closed"]
    /\ todo = [w \in Windows |-> {}]
    /\ invalid = [w \in Windows |-> 0]
    /\ buffer = [w \in Windows |-> "good"]
    /\ next = [w \in Windows |-> 1]
    /\ writes = [w \in Windows |-> {}]
    /\ status = [w \in Windows |-> NoResult]
    /\ closes = 0
    /\ lost = {}

-----------------------------------------------------------------------------
(* What is to be installed.                                                  *)

\* A package is installed when its Lock file is there.
NotInstalled == Packages \ lock

\* A required id of which no package is missing is reported as installed before
\* the packages of the other .NET flavour are dropped.
InstallRuntimeDependencies(w) ==
    /\ pc[w] = "closed"
    /\ status' = [status EXCEPT ![w] =
           [i \in Ids |-> IF \E p \in NotInstalled : IdOf[p] = i THEN "none" ELSE "installed"]]
    /\ todo' = [todo EXCEPT ![w] = NotInstalled \ Unused]
    /\ pc' = [pc EXCEPT ![w] = IF NotInstalled \ Unused = {} THEN "activate" ELSE "begin"]
    /\ UNCHANGED <<disk, invalid, buffer, next, writes, closes, lost>>

-----------------------------------------------------------------------------
(* One package: the loop of downloadAndInstallPackages.                      *)

SetStatus(w, s) == status' = [status EXCEPT ![w][IdOf[Current(w)]] = s]

\* The catch clause of the loop.
Failed(w) ==
    /\ SetStatus(w, "failed")
    /\ pc' = [pc EXCEPT ![w] = "finally"]

TouchBegin(w) ==
    /\ pc[w] = "begin"
    /\ folder' = folder \cup {Current(w)}
    /\ begin' = begin \cup {Current(w)}
    /\ pc' = [pc EXCEPT ![w] = "download"]
    /\ invalid' = [invalid EXCEPT ![w] = 0]
    /\ UNCHANGED <<lock, content, complete, todo, buffer, next, writes, status, closes, lost>>

\* The folder, or the file in it, cannot be created.
TouchBeginFails(w) ==
    /\ pc[w] = "begin"
    /\ folder' \in {folder, folder \cup {Current(w)}}
    /\ Failed(w)
    /\ UNCHANGED <<begin, lock, content, complete, todo, invalid, buffer, next, writes, closes, lost>>

\* Mutant: nothing is validated.
ValidAlways(p, b) == TRUE

\* isValidDownload: without a hash everything is valid.
Valid(p, b) == p \in Checked => b = "good"

MaxTries == 2

\* Mutant: an invalid download is asked for again without an end.
ArrivedForever(w, b) ==
    /\ buffer' = [buffer EXCEPT ![w] = b]
    /\ next' = [next EXCEPT ![w] = 1]
    /\ pc' = [pc EXCEPT ![w] = IF Valid(Current(w), b) THEN "extract" ELSE "download"]
    /\ UNCHANGED <<invalid, status>>

\* What a download brought is validated, and unpacked or asked for again.
Arrived(w, b) ==
    /\ buffer' = [buffer EXCEPT ![w] = b]
    /\ IF Valid(Current(w), b)
       THEN /\ pc' = [pc EXCEPT ![w] = "extract"]
            /\ next' = [next EXCEPT ![w] = 1]
            /\ UNCHANGED <<invalid, status>>
       ELSE /\ SetStatus(w, "failed")
            /\ UNCHANGED next
            /\ IF invalid[w] + 1 < MaxTries
               THEN /\ invalid' = [invalid EXCEPT ![w] = @ + 1]
                    /\ pc' = [pc EXCEPT ![w] = "download"]
               ELSE /\ UNCHANGED invalid
                    /\ pc' = [pc EXCEPT ![w] = "finally"]

Download(w) ==
    /\ pc[w] = "download"
    /\ \/ \E b \in Buffers : Arrived(w, b)
       \/ /\ IF Current(w) \in WithFallback
             THEN pc' = [pc EXCEPT ![w] = "fallback"] /\ UNCHANGED status
             ELSE Failed(w)
          /\ UNCHANGED <<invalid, buffer, next>>
    /\ UNCHANGED <<disk, todo, writes, closes, lost>>

DownloadFallback(w) ==
    /\ pc[w] = "fallback"
    /\ \/ \E b \in Buffers : Arrived(w, b)
       \/ Failed(w) /\ UNCHANGED <<invalid, buffer, next>>
    /\ UNCHANGED <<disk, todo, writes, closes, lost>>

-----------------------------------------------------------------------------
(* InstallZip: an entry is asked for when the stream of the entry before was
   read to its end; the write stream it was piped into is not waited for.     *)

ExtractFile(w) ==
    /\ pc[w] = "extract" /\ next[w] \in Files
    /\ LET p == Current(w) f == next[w] IN
       /\ content' = [content EXCEPT ![p][f] = "partial"]
       /\ writes' = [writes EXCEPT ![w] = @ \cup {<<p, f, buffer[w]>>}]
       /\ lost' = lost \ {<<p, f>>}
    /\ next' = [next EXCEPT ![w] = @ + 1]
    /\ UNCHANGED <<folder, begin, lock, complete, pc, todo, invalid, buffer, status, closes>>

\* The archive is not one, or a folder or stream cannot be opened.
ExtractFails(w) ==
    /\ pc[w] = "extract"
    /\ Failed(w)
    /\ UNCHANGED <<disk, todo, invalid, buffer, next, writes, closes, lost>>

\* Mutant: the archive ends with one of its files to come.
ZipEndsEarly(w) ==
    /\ pc[w] = "extract" /\ next[w] >= NFiles
    /\ pc' = [pc EXCEPT ![w] = "lock"]
    /\ UNCHANGED <<disk, install, writes, closes, lost>>

\* The end of the archive settles the promise, when every stream was read to its end.
ZipEnds(w) ==
    /\ pc[w] = "extract" /\ next[w] = NFiles + 1
    /\ pc' = [pc EXCEPT ![w] = "lock"]
    /\ UNCHANGED <<disk, install, writes, closes, lost>>

\* The bytes of a file reach the disk, at any time after the file was handed out.  A
\* window that wrote the same file and ended in between may have cut it.
Written(w) ==
    \E x \in writes[w] :
        /\ \E c \in {x[3]} \cup {d \in {"partial"} : <<x[1], x[2]>> \in lost} :
               content' = [content EXCEPT ![x[1]][x[2]] = c]
        /\ writes' = [writes EXCEPT ![w] = @ \ {x}]
        /\ UNCHANGED <<folder, begin, lock, complete, pc, install, closes, lost>>

\* Writes that end before their bytes are on disk: each had cut its file or not yet.
Lose(w, unwritten) ==
    LET torn == {<<x[1], x[2]>> : x \in unwritten} IN
    /\ writes' = [writes EXCEPT ![w] = @ \ unwritten]
    /\ lost' = lost \cup torn
    /\ \E cut \in SUBSET torn :
           content' = [p \in Packages |-> [f \in Files |->
                          IF <<p, f>> \in cut THEN "partial" ELSE content[p][f]]]

\* Nobody listens to the errors of a write stream.  The stream that is piped
\* into it stops, so the archive never ends; if it was read already, all goes on.
WriteFails(w) ==
    \E x \in writes[w] :
        /\ Lose(w, {x})
        /\ \/ /\ pc[w] = "extract" /\ x[1] = Current(w) /\ x[2] = next[w] - 1
              /\ pc' = [pc EXCEPT ![w] = "hung"]
           \/ UNCHANGED pc
        /\ UNCHANGED <<folder, begin, lock, complete, install, closes>>

TouchLock(w) ==
    /\ pc[w] = "lock"
    /\ lock' = lock \cup {Current(w)}
    /\ SetStatus(w, "installed")
    /\ pc' = [pc EXCEPT ![w] = "finally"]
    /\ UNCHANGED <<folder, begin, content, complete, todo, invalid, buffer, next, writes, closes, lost>>

TouchLockFails(w) ==
    /\ pc[w] = "lock"
    /\ Failed(w)
    /\ UNCHANGED <<disk, todo, invalid, buffer, next, writes, closes, lost>>

\* The finally clause removes the Begin file and swallows what goes wrong.
Finally(w) ==
    /\ pc[w] = "finally"
    /\ begin' \in {begin, begin \ {Current(w)}}
    /\ todo' = [todo EXCEPT ![w] = @ \ {Current(w)}]
    /\ pc' = [pc EXCEPT ![w] = IF todo'[w] = {} THEN "activate" ELSE "begin"]
    /\ invalid' = [invalid EXCEPT ![w] = 0]
    /\ buffer' = [buffer EXCEPT ![w] = "good"]
    /\ next' = [next EXCEPT ![w] = 1]
    /\ UNCHANGED <<folder, lock, content, complete, writes, status, closes, lost>>

-----------------------------------------------------------------------------
(* The debugger.                                                             *)

DebuggerFolderExists == \E p \in folder : IdOf[p] = Debugger

\* The file is written when the .NET CLI is found and new enough and the
\* architecture is supported; otherwise there is a message and no file.
CompleteDebuggerInstall == complete' \in {complete, TRUE}

\* Mutant: the debugger is activated whatever became of its installation.
ActivateDebuggerAnyway(w) ==
    /\ pc[w] = "activate"
    /\ pc' = [pc EXCEPT ![w] = "ready"]
    /\ CompleteDebuggerInstall
    /\ UNCHANGED <<folder, begin, lock, content, install, writes, closes, lost>>

\* activate of coreclrDebug, called only when the debugger counts as installed.
ActivateDebugger(w) ==
    /\ pc[w] = "activate"
    /\ IF status[w][Debugger] = "installed"
       THEN /\ pc' = [pc EXCEPT ![w] = "ready"]
            /\ IF DebuggerFolderExists /\ ~complete
               THEN CompleteDebuggerInstall
               ELSE UNCHANGED complete
       ELSE pc' = [pc EXCEPT ![w] = "noDebugger"] /\ UNCHANGED complete
    /\ UNCHANGED <<folder, begin, lock, content, install, writes, closes, lost>>

\* createDebugAdapterDescriptor looks for the folder of the debugger only.
LaunchDebugger(w) ==
    /\ pc[w] = "ready"
    /\ DebuggerFolderExists
    /\ pc' = [pc EXCEPT ![w] = "debugging"]
    /\ UNCHANGED <<disk, install, writes, closes, lost>>

-----------------------------------------------------------------------------

\* External: the window is closed or its extension host dies.
Close(w) ==
    /\ pc[w] # "closed"
    /\ closes < MaxCloses
    /\ closes' = closes + 1
    /\ pc' = [pc EXCEPT ![w] = "closed"]
    /\ todo' = [todo EXCEPT ![w] = {}]
    /\ invalid' = [invalid EXCEPT ![w] = 0]
    /\ buffer' = [buffer EXCEPT ![w] = "good"]
    /\ next' = [next EXCEPT ![w] = 1]
    /\ Lose(w, writes[w])
    /\ status' = [status EXCEPT ![w] = NoResult]
    /\ UNCHANGED <<folder, begin, lock, complete>>

Step(w) ==
    \/ TouchBegin(w) \/ TouchBeginFails(w)
    \/ Download(w) \/ DownloadFallback(w)
    \/ ExtractFile(w) \/ ExtractFails(w) \/ ZipEnds(w)
    \/ Written(w)
    \/ TouchLock(w) \/ TouchLockFails(w)
    \/ Finally(w)
    \/ ActivateDebugger(w)

Next ==
    \E w \in Windows :
        \/ InstallRuntimeDependencies(w)
        \/ Step(w)
        \/ WriteFails(w)
        \/ LaunchDebugger(w)
        \/ Close(w)

\* The event loop of a window goes on, every request is answered or fails, and
\* a write that does not fail ends.
Fairness == \A w \in Windows : WF_vars(Step(w))

Spec == Init /\ [][Next]_vars
FairSpec == Spec /\ Fairness

-----------------------------------------------------------------------------
(* Properties.                                                               *)

BeingWritten(p, f) == \E w \in Windows : \E x \in writes[w] : x[1] = p /\ x[2] = f

\* A package with a Lock file, which is never installed again, has on disk every file as
\* it was published, however windows install it at a time, fail and are killed; except
\* for files that are still being written, and for those whose write was lost: the window
\* was killed, or the write failed, before its bytes were on disk.  The code waits for
\* neither (zipInstaller.ts:62-63), so that a file may be lost after its package is locked
\* (packageFilterer.ts:32, downloadAndInstallPackages.ts:52-54).
LockedIsWhole ==
    \A p \in lock \cap Checked : \A f \in Files :
        content[p][f] = "good" \/ BeingWritten(p, f) \/ <<p, f>> \in lost

\* The debugger is launched only with a package of it installed
\* (coreclrDebug/activate.ts:255-257).  Windows and macOS on arm64 have two, of which
\* the last result counts, so that the other may be missing: downloadAndInstallPackages
\* keeps its results by id.  Every variable has its type.
LaunchMeansInstalled ==
    /\ TypeOK
    /\ \A w \in Windows : pc[w] = "debugging" => DebuggerPackages \cap lock # {}

\* Every activation gets through its installations, whatever fails on the way
\* but a write, after which the archive never ends.
EveryActivationEnds ==
    \A w \in Windows :
        pc[w] \in Installing \cup {"activate"} ~> pc[w] \in Idle \cup {"hung"}

=============================================================================
