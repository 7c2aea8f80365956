----------------------------- MODULE LogCapture -----------------------------
(* Collecting logs, traces and dumps of the Roslyn server (lsptoolshost/logging/),
   and the log levels of the server and its client, which a capture raises and
   puts back (server/roslynLanguageServer.ts).

   A command asks what to collect, with which tools and where to, and then
   records until the user stops it.  Commands may overlap, other extensions may
   capture through the extension's exports, the user may change the levels of the
   two output channels, and the server may stop and start, all at any time.

   A level is "verbose" (Trace) or not.  The dumps of a command are named by
   their command, kind and moment, which never collide in the model; a
   dump tool may fail with or without having written a part of its file.  All
   commands save to one folder, in which an old trace may lie.  The terminal has
   shell integration, so that the end of dotnet-trace is noticed.            *)
EXTENDS Naturals, FiniteSets

CONSTANTS
    Commands,       \* invocations by the user and captures of other extensions
    Selections,     \* what a user may select to collect, sets of Kinds
    MaxChanges      \* bound, in Nat: changes of levels and stops of the server

VARIABLES
    running,        \* the client's state is Running
    outputVerbose,  \* the level of the C# channel
    traceVerbose,   \* the level of the LSP trace channel
    serverVerbose,  \* the level the server process was told
    clientVerbose,  \* the trace of the language client
    traceUpdates,   \* calls of updateTraceChannelLogLevel that have still to run
    changes,        \* changes so far
    pc,             \* where a command is
    logs,           \* what it collects
    observers,      \* commands whose observers listen to the two channels
    restores,       \* commands whose capture puts the levels back
    dumps,          \* the dumps a command has collected
    trace,          \* the trace file a command has found
    archive,        \* the files in its archive
    disk            \* traces and dumps in the folder

levels == <<running, outputVerbose, traceVerbose, serverVerbose, clientVerbose, traceUpdates, changes>>
captures == <<observers, restores>>
files == <<dumps, trace, archive, disk>>
vars == <<levels, pc, logs, captures, files>>

Kinds == {"activity", "trace", "memory", "gc"}
Moments == {"before", "after", "only"}
Dump(c, k, m) == [of |-> c, kind |-> k, moment |-> m]
Trace(c) == Dump(c, "trace", "only")
OldTrace == [of |-> "user", kind |-> "trace", moment |-> "only"]

DumpsOf(c, m) == {Dump(c, k, m) : k \in logs[c] \cap {"memory", "gc"}}
Records(c) == logs[c] \cap {"activity", "trace"} # {}
Traces == {f \in disk : f.kind = "trace"}

Ended == {"saved", "failed", "cancelled", "disposed"}
Capturing == {"levels", "before", "recording", "tracing", "after", "reading", "zipping", "held", "hung"}

Init ==
    /\ running = TRUE
    /\ outputVerbose = FALSE /\ traceVerbose = FALSE
    /\ serverVerbose = FALSE /\ clientVerbose = FALSE
    /\ traceUpdates = 0 /\ changes = 0
    /\ pc = [c \in Commands |-> "idle"]
    /\ logs = [c \in Commands |-> {}]
    /\ observers = {} /\ restores = {}
    /\ dumps = [c \in Commands |-> {}]
    /\ trace = [c \in Commands |-> {}]
    /\ archive = [c \in Commands |-> {}]
    /\ disk \in {{}, {OldTrace}}

Goto(c, label) == pc' = [pc EXCEPT ![c] = label]

-----------------------------------------------------------------------------
(* The levels.                                                               *)

\* updateOutputChannelLogLevel followed by updateTraceChannelLogLevel: the first
\* acts at once, the second in a turn of its own.
UpdateLevels(isRunning) ==
    /\ serverVerbose' = IF isRunning THEN outputVerbose ELSE serverVerbose
    /\ traceUpdates' = traceUpdates + 1

\* A server starts with the level on its command line; the library sets the
\* trace of its client in its own way before the listener's update.
ServerStarts ==
    /\ ~running
    /\ running' = TRUE
    /\ clientVerbose' \in BOOLEAN
    /\ UpdateLevels(TRUE)
    /\ UNCHANGED <<outputVerbose, traceVerbose, changes, pc, logs, captures, files>>

ServerStops ==
    /\ running /\ changes < MaxChanges
    /\ running' = FALSE /\ changes' = changes + 1
    /\ UNCHANGED <<outputVerbose, traceVerbose, serverVerbose, clientVerbose, traceUpdates,
                   pc, logs, captures, files>>

OutputLevelChanges ==
    /\ changes < MaxChanges
    /\ changes' = changes + 1
    /\ outputVerbose' = ~outputVerbose
    /\ serverVerbose' = IF running THEN outputVerbose' ELSE serverVerbose
    /\ UNCHANGED <<running, traceVerbose, clientVerbose, traceUpdates, pc, logs, captures, files>>

\* The library reacts too; the extension's update comes later, to override it.
TraceLevelChanges ==
    /\ changes < MaxChanges
    /\ changes' = changes + 1
    /\ traceVerbose' = ~traceVerbose
    /\ clientVerbose' \in BOOLEAN
    /\ traceUpdates' = traceUpdates + 1
    /\ UNCHANGED <<running, outputVerbose, serverVerbose, pc, logs, captures, files>>

UpdateTraceLevel ==
    /\ traceUpdates > 0
    /\ traceUpdates' = traceUpdates - 1
    /\ clientVerbose' = IF running THEN traceVerbose ELSE clientVerbose
    /\ UNCHANGED <<running, outputVerbose, traceVerbose, serverVerbose, changes,
                   pc, logs, captures, files>>

-----------------------------------------------------------------------------
(* A capture.                                                                *)

\* Observers are made, and then the levels raised if the server runs.
CreateCapture(c, then) ==
    /\ observers' = observers \cup {c}
    /\ IF running
       THEN serverVerbose' = TRUE /\ Goto(c, "levels")
       ELSE UNCHANGED serverVerbose /\ Goto(c, then)
    /\ UNCHANGED <<running, outputVerbose, traceVerbose, clientVerbose, traceUpdates, changes, restores>>

AfterLevels(c) == IF logs[c] = {} THEN "held" ELSE "before"

\* The notification was sent: the client traces, and dispose will put both back.
LevelsRaised(c) ==
    /\ pc[c] = "levels"
    /\ clientVerbose' = TRUE
    /\ restores' = restores \cup {c}
    /\ Goto(c, AfterLevels(c))
    /\ UNCHANGED <<running, outputVerbose, traceVerbose, serverVerbose, traceUpdates, changes,
                   logs, observers, files>>

\* The server has gone: the notification's rejection leaves createActivityLogCapture
\* before there is a capture to dispose.
LevelsNotRaised(c) ==
    /\ pc[c] = "levels" /\ ~running
    /\ Goto(c, "failed")
    /\ UNCHANGED <<levels, logs, captures, files>>

\* dispose, which nobody awaits.
\* Mutant: the levels are not put back.
DisposeObserversOnly(c) ==
    /\ observers' = observers \ {c}
    /\ restores' = restores \ {c}
    /\ UNCHANGED levels

Dispose(c) ==
    /\ observers' = observers \ {c}
    /\ restores' = restores \ {c}
    /\ IF c \in restores
       THEN UpdateLevels(running)
       ELSE UNCHANGED <<serverVerbose, traceUpdates>>
    /\ UNCHANGED <<running, outputVerbose, traceVerbose, clientVerbose, changes>>

\* Another extension captures through captureActivityLogs and disposes later.
CaptureActivityLogs(c) ==
    /\ pc[c] = "idle"
    /\ CreateCapture(c, "held")
    /\ UNCHANGED <<logs, files>>

DisposeCapture(c) ==
    /\ pc[c] = "held"
    /\ Dispose(c)
    /\ Goto(c, "disposed")
    /\ UNCHANGED <<logs, files>>

-----------------------------------------------------------------------------
(* The command csharp.collectLogs.                                           *)

\* The user selects; a trace or a dump needs the process of a running server.
SelectLogs(c, selected) ==
    /\ pc[c] = "idle"
    /\ IF selected \ {"activity"} # {} /\ ~running
       THEN Goto(c, "cancelled")
       ELSE Goto(c, "preparing")
    /\ logs' = [logs EXCEPT ![c] = selected]
    /\ UNCHANGED <<levels, captures, files>>

\* A tool is not there and not installed, its arguments are not entered, or no
\* place is chosen.
Cancelled(c) ==
    /\ pc[c] = "preparing"
    /\ Goto(c, "cancelled")
    /\ UNCHANGED <<levels, logs, captures, files>>

\* The tools are there and a place is chosen: a command that records starts its
\* capture, another one takes its dumps.
ChooseSaveLocation(c) ==
    /\ pc[c] = "preparing"
    /\ IF Records(c)
       THEN CreateCapture(c, "before")
       ELSE Goto(c, "dumping") /\ UNCHANGED <<levels, captures>>
    /\ UNCHANGED <<logs, files>>

\* collectDumps: each tool writes its file or fails, perhaps after a part of it.
CollectDumps(c, moment) ==
    /\ \E written \in SUBSET DumpsOf(c, moment) : \E made \in SUBSET written :
           /\ disk' = disk \cup written
           /\ dumps' = [dumps EXCEPT ![c] = @ \cup made]
    /\ UNCHANGED <<trace, archive>>

DumpsBefore(c) ==
    /\ pc[c] = "before"
    /\ CollectDumps(c, "before")
    /\ Goto(c, "recording")
    /\ UNCHANGED <<levels, logs, captures>>

\* dotnet-trace runs in a terminal of its own and makes its file.
TraceBegins(c) ==
    /\ pc[c] = "recording" /\ "trace" \in logs[c]
    /\ disk' = disk \cup {Trace(c)}
    /\ Goto(c, "tracing")
    /\ UNCHANGED <<levels, logs, captures, dumps, trace, archive>>

\* The trace found is the latest in the folder: the command's own, one that
\* another command writes, or an old one when there is no other.
Latest ==
    IF Traces \ {OldTrace} # {} THEN {{f} : f \in Traces \ {OldTrace}}
    ELSE {Traces}

\* The user stops the recording, dotnet-trace fails, or another command takes the
\* terminal.
RecordingStopped(c) ==
    /\ pc[c] \in {"recording", "tracing"}
    /\ IF "trace" \in logs[c]
       THEN \E found \in Latest : trace' = [trace EXCEPT ![c] = found]
       ELSE UNCHANGED trace
    /\ Goto(c, "after")
    /\ UNCHANGED <<levels, logs, captures, dumps, archive, disk>>

\* No terminal can be made.
RecordingFails(c) ==
    /\ pc[c] = "recording" /\ "trace" \in logs[c]
    /\ Goto(c, "failed")
    /\ Dispose(c)
    /\ UNCHANGED <<logs, files>>

DumpsAfter(c) ==
    /\ pc[c] = "after"
    /\ CollectDumps(c, "after")
    /\ Goto(c, "reading")
    /\ UNCHANGED <<levels, logs, captures>>

DumpsOnly(c) ==
    /\ pc[c] = "dumping"
    /\ CollectDumps(c, "only")
    /\ Goto(c, "reading")
    /\ UNCHANGED <<levels, logs, captures>>

\* The present log files are read, and the files that exist join the archive.
ZipBegins(c) ==
    /\ pc[c] = "reading"
    /\ archive' = [archive EXCEPT ![c] = disk \cap (dumps[c] \cup trace[c])]
    /\ Goto(c, "zipping")
    /\ UNCHANGED <<levels, logs, captures, dumps, trace, disk>>

\* The command ends: archiveActivity disposes its capture, archiveDumps has none.
EndWith(c, label) ==
    /\ Goto(c, label)
    /\ IF Records(c) THEN Dispose(c) ELSE UNCHANGED <<levels, captures>>

\* The archive is closed and what it holds removed.  A trace that another
\* command removed meanwhile may have been read or not.
\* Mutant: the files stay.
ZipClosesOnly(c) ==
    /\ pc[c] = "zipping"
    /\ EndWith(c, "saved")
    /\ UNCHANGED <<logs, files>>

ZipCloses(c) ==
    /\ pc[c] = "zipping"
    /\ \E unread \in SUBSET (archive[c] \ disk) : archive' = [archive EXCEPT ![c] = @ \ unread]
    /\ disk' = disk \ (dumps[c] \cup trace[c])
    /\ EndWith(c, "saved")
    /\ UNCHANGED <<logs, dumps, trace>>

\* The archiver reports an error, or the stream it writes to does, for which
\* nobody listens.
ZipFails(c) ==
    /\ pc[c] = "zipping"
    /\ EndWith(c, "failed")
    /\ UNCHANGED <<logs, files>>

OutputFails(c) ==
    /\ pc[c] = "zipping"
    /\ Goto(c, "hung")
    /\ UNCHANGED <<levels, logs, captures, files>>

-----------------------------------------------------------------------------
Step(c) ==
    \/ LevelsRaised(c) \/ LevelsNotRaised(c)
    \/ DumpsBefore(c) \/ DumpsAfter(c) \/ DumpsOnly(c)
    \/ ZipBegins(c) \/ ZipCloses(c) \/ ZipFails(c) \/ OutputFails(c)

Next ==
    \/ \E c \in Commands :
           \/ \E selected \in Selections : SelectLogs(c, selected)
           \/ Cancelled(c) \/ ChooseSaveLocation(c)
           \/ TraceBegins(c) \/ RecordingStopped(c) \/ RecordingFails(c)
           \/ CaptureActivityLogs(c) \/ DisposeCapture(c)
           \/ Step(c)
    \/ ServerStarts \/ ServerStops \/ OutputLevelChanges \/ TraceLevelChanges \/ UpdateTraceLevel

Spec == Init /\ [][Next]_vars

-----------------------------------------------------------------------------
(* Properties.                                                               *)

File == [of : Commands \cup {"user"}, kind : Kinds, moment : Moments]

TypeOK ==
    /\ {running, outputVerbose, traceVerbose, serverVerbose, clientVerbose} \subseteq BOOLEAN
    /\ traceUpdates \in Nat /\ changes \in 0 .. MaxChanges
    /\ pc \in [Commands -> {"idle", "preparing", "dumping"} \cup Capturing \cup Ended]
    /\ logs \in [Commands -> SUBSET Kinds]
    /\ observers \subseteq Commands /\ restores \subseteq observers
    /\ dumps \in [Commands -> SUBSET File] /\ trace \in [Commands -> SUBSET File]
    /\ archive \in [Commands -> SUBSET File] /\ disk \subseteq File

\* When no capture is under way and no update is to run, a running server logs at
\* the level of the C# channel and its client traces as the trace channel says,
\* however captures overlapped with each other, with changes of the levels and
\* with restarts (roslynLanguageServer.ts:131-193).
LevelsSettle ==
    running /\ traceUpdates = 0 /\ (\A c \in Commands : pc[c] \notin Capturing) =>
        /\ serverVerbose = outputVerbose
        /\ clientVerbose = traceVerbose

\* A command that has saved has archived and removed every dump it collected, and
\* no trace or collected dump is removed that is not in some archive
\* (loggingUtils.ts:338-372), even when two commands find the same trace.
Removed(c) == (dumps[c] \cup trace[c]) \ disk
CollectedIsArchived ==
    /\ \A c \in Commands : pc[c] = "saved" => dumps[c] \subseteq archive[c] \ disk
    /\ \A c \in Commands : \A f \in Removed(c) :
           \E d \in Commands : f \in archive[d] /\ pc[d] = "saved"

\* The observers of a capture, which keep every message, end with it, unless the
\* levels could not be raised (loggingUtils.ts:500-526).
ObserversEnd ==
    \A c \in observers :
        pc[c] \in Capturing \/ (pc[c] = "failed" /\ c \notin restores)
=============================================================================
