----------------------------- MODULE BuildAssets -----------------------------
(* tasks.json and launch.json of the workspace folders (shared/assets.ts).

   When the workspace has been loaded, each folder whose projects can be run and
   whose files are missing gets a prompt to add them; the command
   dotnet.generateAssets goes through the folders and writes the files after a
   question.  The user may change the files while a prompt or a question is open.

   A file is known by the names of its entries and by who wrote them; the comments,
   the formatting and the templates behind a name are left out, as jsonc edits one
   entry at a time.  The two texts are computed at once and written by the system
   later; nobody else changes them in that moment.                             *)
EXTENDS Naturals, Sequences

LOCAL INSTANCE SequencesExt

CONSTANTS
    Folders,        \* the workspace folders, in a sequence
    Workspaces,     \* functions from folders to [projects, tasks, launch] at the beginning
    UserFiles,      \* files the user may leave behind
    MaxEdits        \* bound, in Nat: changes by the user

VARIABLES
    projects,       \* what the server says of a folder
    disk,           \* its two files
    suppressed,     \* csharp.suppressBuildAssetsNotification
    disabled,       \* workspaceState: assetPromptDisabled
    auto,           \* where the check of a folder is, or its AddAssetResult
    operations,     \* what the check found to be done
    command,        \* where the command is: a label and the index of the folder
    writes,         \* files computed and not yet written
    confirmed,      \* files the user agreed to replace entries of, by the check that asked
    touched,        \* files changed since a check looked at them
    lost,           \* entries of the user's that were overwritten
    edits

vars == <<projects, disk, suppressed, disabled, auto, operations, command, writes,
          confirmed, touched, lost, edits>>

FolderSet == ToSet(Folders)
AssetFiles == {"tasks", "launch"}
Checks == {"auto", "command"}

-----------------------------------------------------------------------------
(* AssetGenerator.                                                           *)

\* findExecutableMSBuildProjects
Executable(ps) == SelectSeq(ps, LAMBDA p : p.isExe /\ (p.core \/ p.standalone))

ProgramLaunchType(p) ==
    CASE p.standalone -> "BlazorWebAssemblyStandalone"
      [] ~p.standalone /\ p.hosted -> "BlazorWebAssemblyHosted"
      [] ~p.standalone /\ ~p.hosted /\ p.web -> "Web"
      [] OTHER -> "Console"

\* The templates, by the names of the entries they make.
LaunchConfiguration == "console"
WebLaunchConfiguration == "web"
HostedLaunchConfiguration == "hosted"
StandaloneLaunchConfiguration == "standalone"
AttachConfiguration == "attach"
BuildTask == "build"
PublishTask == "publish"
WatchTask == "watch"

\* createLaunchJsonConfigurations
LaunchJsonConfigurations(p) ==
    [Console |-> <<LaunchConfiguration, AttachConfiguration>>,
     Web |-> <<WebLaunchConfiguration, AttachConfiguration>>,
     BlazorWebAssemblyHosted |-> <<HostedLaunchConfiguration>>,
     BlazorWebAssemblyStandalone |-> <<StandaloneLaunchConfiguration>>][ProgramLaunchType(p)]

\* createTasksConfiguration
TasksConfiguration == <<BuildTask, PublishTask, WatchTask>>

Ours(name) == [name |-> name, user |-> FALSE, group |-> FALSE]
OurEntries(names) == [i \in DOMAIN names |-> Ours(names[i])]

\* The projects that selectStartupProject may end with: the only one, or the pick.
Startups(f) == ToSet(Executable(projects[f]))

\* updateJsonWithComments: each of our entries replaces the one of its name, the
\* others are added at the end in their order.
IndexOfName(entries, name) == {i \in DOMAIN entries : entries[i].name = name}

\* Mutant: an entry that is not there replaces the last one.
MergeOverLast(entries, ours) ==
    FoldLeft(LAMBDA file, e :
                 IF IndexOfName(entries, e.name) = {}
                 THEN Append(IF file = entries /\ file # <<>> THEN Front(file) ELSE file, e)
                 ELSE [file EXCEPT ![Min(IndexOfName(entries, e.name))] = e],
             entries, ours)

Merge(entries, ours) ==
    FoldLeft(LAMBDA file, e :
                 IF IndexOfName(entries, e.name) = {}
                 THEN Append(file, e)
                 ELSE [file EXCEPT ![Min(IndexOfName(entries, e.name))] = e],
             entries, ours)

\* A file that does not exist is written anew; one without the node of the entries
\* cannot be changed.
Updated(file, ours) ==
    IF file.kind = "absent" THEN [kind |-> "entries", version |-> "2.0", entries |-> ours]
    ELSE [file EXCEPT !.entries = Merge(file.entries, ours)]
Updatable(file) == file.kind \in {"absent", "entries"}

\* getExistingAssets: the entries named as ours, of the names the code lists; a file
\* without the node counts as one.
ListedNames ==
    {BuildTask, PublishTask, WatchTask, LaunchConfiguration, WebLaunchConfiguration,
     AttachConfiguration, StandaloneLaunchConfiguration}
HasExisting(file) ==
    \/ file.kind \in {"text", "object"}
    \/ \E i \in DOMAIN file.entries : file.entries[i].name \in ListedNames

-----------------------------------------------------------------------------

Init ==
    /\ \E w \in Workspaces :
           /\ projects = [f \in FolderSet |-> w[f].projects]
           /\ disk = [f \in FolderSet |-> [tasks |-> w[f].tasks, launch |-> w[f].launch]]
    /\ suppressed \in BOOLEAN
    /\ disabled = FALSE
    /\ auto = [f \in FolderSet |-> "idle"]
    /\ operations = [f \in FolderSet |-> {}]
    /\ command = <<"idle", 1>>
    /\ writes = {} /\ confirmed = {} /\ touched = {} /\ lost = {} /\ edits = 0

Here == <<projects, suppressed>>
Log == <<confirmed, touched, lost, edits>>

\* The user saves a file while no write of the extension is under way.
UserEdits(f, file, content) ==
    /\ edits < MaxEdits /\ writes = {}
    /\ content # disk[f][file]
    /\ disk' = [disk EXCEPT ![f][file] = content]
    /\ touched' = touched \cup {<<by, f, file>> : by \in Checks}
    /\ edits' = edits + 1
    /\ UNCHANGED <<Here, disabled, auto, operations, command, writes, confirmed, lost>>

\* The writes of addTasksJsonIfNecessary and addLaunchJsonIfNecessary, which run up
\* to their writeFile one after the other; the promise of a file that cannot be
\* updated is rejected, and the other is written all the same.
AddAssets(f, ops, startup, by) ==
    LET ours == [tasks |-> OurEntries(TasksConfiguration),
                 launch |-> IF "launch" \in ops THEN OurEntries(LaunchJsonConfigurations(startup)) ELSE <<>>]
    IN  writes' = writes \cup
            {[folder |-> f, file |-> x, by |-> by, content |-> Updated(disk[f][x], ours[x])] :
                 x \in {y \in ops : Updatable(disk[f][y])}}

AllUpdatable(f, ops) == \A x \in ops : Updatable(disk[f][x])

-----------------------------------------------------------------------------
(* addAssetsIfNecessary, once the workspace is loaded.                       *)

\* All folders begin; one without projects that can be run is done with.
AutoBegins ==
    /\ ~disabled /\ \A f \in FolderSet : auto[f] = "idle"
    /\ auto' = [f \in FolderSet |->
                    IF Executable(projects[f]) = <<>> THEN "NotApplicable" ELSE "operations"]
    /\ UNCHANGED <<Here, disk, disabled, operations, command, writes, Log>>

\* getBuildOperations: tasks.json is to be added, or updated when it has no task of
\* the group "build".  An error in the callback of the read settles no promise.
BuildOperations(file) ==
    IF \/ file.kind = "absent"
       \/ /\ file.kind = "entries" /\ file.version = "2.0"
          /\ \A i \in DOMAIN file.entries : ~file.entries[i].group
    THEN {"tasks"} ELSE {}

\* getOperations, of both files, and hasAddOperations: an update alone is not worth
\* a prompt.
GetOperations(f) ==
    /\ auto[f] = "operations"
    /\ LET t == disk[f].tasks
           ops == BuildOperations(t) \cup IF disk[f].launch.kind = "absent" THEN {"launch"} ELSE {}
       IN  IF t.kind = "text" THEN auto' = [auto EXCEPT ![f] = "hung"] /\ UNCHANGED operations
           ELSE /\ operations' = [operations EXCEPT ![f] = ops]
                /\ auto' = [auto EXCEPT ![f] =
                       IF t.kind = "absent" \/ "launch" \in ops THEN "prompt" ELSE "NotApplicable"]
    /\ touched' = touched \ {<<"auto", f, x>> : x \in AssetFiles}
    /\ UNCHANGED <<Here, disk, disabled, command, writes, confirmed, lost, edits>>

\* promptToAddAssets; with the setting, no prompt is shown and nothing is answered.
\* A tasks.json to be updated was looked at, and its own tasks may be replaced.
PromptAnswered(f, answer) ==
    /\ auto[f] = "prompt" /\ ~suppressed
    /\ auto' = [auto EXCEPT ![f] = IF answer = "Yes" THEN "startup" ELSE answer]
    /\ confirmed' = IF answer = "Yes" THEN confirmed \cup {<<"auto", f, "tasks">>} ELSE confirmed
    /\ UNCHANGED <<Here, disk, disabled, operations, command, writes, touched, lost, edits>>

\* addAssets: the startup project is the only one or picked.
AutoAdds(f) ==
    /\ auto[f] = "startup"
    /\ \E startup \in Startups(f) : AddAssets(f, operations[f], startup, f)
    /\ auto' = [auto EXCEPT ![f] = IF AllUpdatable(f, operations[f]) THEN "writing" ELSE "failed"]
    /\ UNCHANGED <<Here, disk, disabled, operations, command, Log>>

\* The pick is dismissed, which counts as done.
AutoDismissed(f) ==
    /\ auto[f] = "startup" /\ Len(Executable(projects[f])) > 1
    /\ auto' = [auto EXCEPT ![f] = "Done"]
    /\ UNCHANGED <<Here, disk, disabled, operations, command, writes, Log>>

Written(by) == \A w \in writes : w.by # by

AutoDone(f) ==
    /\ auto[f] = "writing" /\ Written(f)
    /\ auto' = [auto EXCEPT ![f] = "Done"]
    /\ UNCHANGED <<Here, disk, disabled, operations, command, writes, Log>>

\* The results of all folders: a rejection of one forgets what the user said of
\* another.
AutoEnds ==
    /\ \A f \in FolderSet : auto[f] \in {"NotApplicable", "Done", "Disable", "Cancelled"}
    /\ \E f \in FolderSet : auto[f] = "Disable"
    /\ ~disabled /\ disabled' = TRUE
    /\ UNCHANGED <<Here, disk, auto, operations, command, writes, Log>>

-----------------------------------------------------------------------------
(* generateAssets.                                                           *)

Folder == Folders[command[2]]
Step(label) == command' = <<label, command[2]>>
NextFolder == command' = IF command[2] = Len(Folders) THEN <<"done", 1>> ELSE <<"info", command[2] + 1>>

GenerateAssets ==
    /\ command[1] = "idle"
    /\ Step("info")
    /\ UNCHANGED <<Here, disk, disabled, auto, operations, writes, Log>>

\* The server answers: a folder without projects is an error message, and the
\* existing files decide whether there is a question.
InfoArrives ==
    /\ command[1] = "info"
    /\ IF projects[Folder] = <<>> THEN NextFolder
       ELSE IF \E x \in AssetFiles : HasExisting(disk[Folder][x]) THEN Step("question")
       ELSE Step("startup")
    /\ touched' = touched \ {<<"command", Folder, x>> : x \in AssetFiles}
    /\ UNCHANGED <<Here, disk, disabled, auto, operations, writes, confirmed, lost, edits>>

\* "Replace existing build and debug assets?", of both files.
QuestionAnswered(yes) ==
    /\ command[1] = "question"
    /\ Step(IF yes THEN "startup" ELSE "done")
    /\ confirmed' = IF yes THEN confirmed \cup {<<"command", Folder, x>> : x \in AssetFiles} ELSE confirmed
    /\ UNCHANGED <<Here, disk, disabled, auto, operations, writes, touched, lost, edits>>

CommandOperations(f) == {"tasks"} \cup IF Executable(projects[f]) = <<>> THEN {} ELSE {"launch"}

CommandAdds ==
    /\ command[1] = "startup"
    /\ IF Startups(Folder) = {} THEN AddAssets(Folder, {"tasks"}, projects[Folder][1], "command")
       ELSE \E startup \in Startups(Folder) :
                AddAssets(Folder, CommandOperations(Folder), startup, "command")
    /\ Step(IF AllUpdatable(Folder, CommandOperations(Folder)) THEN "writing" ELSE "done")
    /\ UNCHANGED <<Here, disk, disabled, auto, operations, Log>>

CommandDismissed ==
    /\ command[1] = "startup" /\ Len(Executable(projects[Folder])) > 1
    /\ Step("done")
    /\ UNCHANGED <<Here, disk, disabled, auto, operations, writes, Log>>

CommandContinues ==
    /\ command[1] = "writing" /\ Written("command")
    /\ NextFolder
    /\ UNCHANGED <<Here, disk, disabled, auto, operations, writes, Log>>

-----------------------------------------------------------------------------
(* The file system.                                                          *)

\* What a content loses of the user's entries, and whether it is an entry of a
\* name of ours.
Losses(by, f, file, old, new) ==
    {[folder |-> f, file |-> file, name |-> old[i].name,
      agreed |-> <<by, f, file>> \in confirmed \cup touched] :
         i \in {j \in DOMAIN old : old[j].user /\ \A k \in DOMAIN new : new[k] # old[j]}}

WriteFile(w) ==
    /\ w \in writes
    /\ disk' = [disk EXCEPT ![w.folder][w.file] = w.content]
    /\ lost' = lost \cup
           Losses(IF w.by = "command" THEN "command" ELSE "auto", w.folder, w.file,
                  disk[w.folder][w.file].entries, w.content.entries)
    /\ writes' = writes \ {w}
    /\ UNCHANGED <<Here, disabled, auto, operations, command, confirmed, touched, edits>>

\* A write fails: the promise is rejected whatever the other write does.
WriteFails(w) ==
    /\ w \in writes
    /\ writes' = writes \ {w}
    /\ IF w.by = "command" THEN Step("done") /\ UNCHANGED auto
       ELSE auto' = [auto EXCEPT ![w.by] = "failed"] /\ UNCHANGED command
    /\ UNCHANGED <<Here, disk, disabled, operations, Log>>

Next ==
    \/ AutoBegins \/ AutoEnds
    \/ \E f \in FolderSet :
           \/ GetOperations(f) \/ AutoAdds(f) \/ AutoDismissed(f) \/ AutoDone(f)
           \/ \E answer \in {"Yes", "Cancelled", "Disable"} : PromptAnswered(f, answer)
           \/ \E file \in AssetFiles : \E content \in UserFiles[file] : UserEdits(f, file, content)
    \/ GenerateAssets \/ InfoArrives \/ CommandAdds \/ CommandDismissed \/ CommandContinues
    \/ \E yes \in BOOLEAN : QuestionAnswered(yes)
    \/ \E w \in writes : WriteFile(w) \/ WriteFails(w)

Spec == Init /\ [][Next]_vars

-----------------------------------------------------------------------------

\* The types.
TypeOK ==
    /\ DOMAIN disk = FolderSet /\ disabled \in BOOLEAN
    /\ \A f \in FolderSet : operations[f] \subseteq AssetFiles
    /\ command[2] \in DOMAIN Folders
    /\ \A w \in writes : w.file \in AssetFiles /\ w.folder \in FolderSet

\* An entry of the user's is overwritten only when it has the name of one of ours
\* and the user agreed to replace those of its file, or changed the file while the
\* question was open (assets.ts:926-955, 1020-1057).  "hosted" is missing from the
\* names that are asked about (:908-913).
ReplacedOnlyAsked ==
    \A l \in lost : l.name # "other" /\ (l.agreed \/ l.name = HostedLaunchConfiguration)

\* After a write, the entries of the file have distinct names, ours among them, if
\* they had before (assets.ts:1041-1054).
EntriesAreDistinct ==
    \A f \in FolderSet, x \in AssetFiles :
        LET e == disk[f][x].entries IN
        \A i, j \in DOMAIN e : i # j => e[i].name # e[j].name

\* What is on disk of the user's stays there, and what is written is well formed.
AssetsKept == TypeOK /\ ReplacedOnlyAsked /\ EntriesAreDistinct
=============================================================================
