------------------------------ MODULE DotnetHost ------------------------------
(* What machine this is and which .NET it has: the platform (shared/platform.ts,
   checkSupportedPlatform.ts), the output of dotnet --info (shared/utils/
   getDotnetInfo.ts), the architecture of the debugger and of the runtime
   (coreclrDebug/util.ts, dotnetRuntimeExtensionResolver.ts) and the default solution of
   a workspace (shared/options.ts).

   A line of an output is what the expressions tell of it, a record of its key and
   its value; a version is a number.                                          *)
EXTENDS Naturals, Sequences, FiniteSets

LOCAL INSTANCE SequencesExt

Unknown == "unknown"
None == "none"

-----------------------------------------------------------------------------
(* The platform.                                                             *)

\* FromReleaseInfo: the lines are read until both are known.
FromReleaseInfo(lines) ==
    LET value[i \in 0 .. Len(lines)] ==
            IF i = 0 THEN [name |-> Unknown, version |-> Unknown]
            ELSE LET before == value[i - 1] line == lines[i] IN
                 CASE before.name # Unknown /\ before.version # Unknown -> before
                   [] ~(before.name # Unknown /\ before.version # Unknown) /\ line.key = "ID" ->
                          [before EXCEPT !.name = line.value]
                   [] ~(before.name # Unknown /\ before.version # Unknown) /\ line.key = "VERSION_ID" ->
                          [before EXCEPT !.version = line.value]
                   [] OTHER -> before
    IN  value[Len(lines)]

\* LinuxDistribution.GetCurrent: the second file stands in for one that cannot be read.
Distribution(files) ==
    LET readable == SelectSeq(files, LAMBDA f : f.readable) IN
    IF readable = <<>> THEN FromReleaseInfo(<<>>) ELSE FromReleaseInfo(readable[1].lines)

\* PlatformInformation.GetCurrent; uname may fail, ldd may not.
WindowsArchitecture(in) ==
    IF in.processor \in {"x86", "ARM64"} /\ ~in.wow64
    THEN IF in.processor = "x86" THEN "x86" ELSE "arm64"
    ELSE "x86_64"
UnixArchitecture(in) == IF in.uname = "aarch64" THEN "arm64" ELSE in.uname

Platform(in) ==
    CASE in.os = "win32" -> {[platform |-> "win32", architecture |-> WindowsArchitecture(in)]}
      [] in.os \in {"darwin", "linux"} /\ in.uname = None -> {}
      [] in.os = "darwin" /\ in.uname # None -> {[platform |-> "darwin", architecture |-> UnixArchitecture(in)]}
      [] in.os = "linux" /\ in.uname # None ->
             {[platform |-> IF in.musl THEN "linux-musl" ELSE "linux", architecture |-> UnixArchitecture(in)]}
      [] OTHER -> {}

IsLinux(p) == p.platform \in {"linux", "linux-musl"}

IsSupportedPlatform(p) ==
    CASE p.platform = "win32" -> p.architecture \in {"x86_64", "arm64"}
      [] p.platform = "darwin" -> TRUE
      [] IsLinux(p) -> p.architecture \in {"x86_64", "x86", "i686", "arm64"}
      [] OTHER -> FALSE

-----------------------------------------------------------------------------
(* The .NET that is there.                                                   *)

\* getDotNetExecutablePath: the first of the paths with a dotnet, otherwise the one of
\* PATH.
DotNetExecutablePath(paths) ==
    LET there == SelectSeq(paths, LAMBDA p : p.exists) IN
    IF there = <<>> THEN "PATH" ELSE there[1].name

\* Of several lines with a key, as of the SDK and of the host, the last counts.
\* Mutant: the first counts.
LastOfFirst(lines, key) ==
    LET found == SelectSeq(lines, LAMBDA l : l.key = key) IN
    IF found = <<>> THEN 0 ELSE found[1].value

LastOf(lines, key) ==
    LET found == SelectSeq(lines, LAMBDA l : l.key = key) IN
    IF found = <<>> THEN 0 ELSE Last(found).value

\* getDotnetInfo: {} for an error of either command, or without a version.
DotnetInfo(in) ==
    IF ~in.runs \/ LastOf(in.lines, "Version") = 0 THEN {}
    ELSE {[Version |-> LastOf(in.lines, "Version"), RuntimeId |-> LastOf(in.lines, "RID"),
           CliPath |-> DotNetExecutablePath(in.paths),
           Runtimes |-> {in.runtimes[i].name : i \in DOMAIN in.runtimes}]}

\* checkDotNetCli, of at least 1.0.0.
CheckDotNetCli(in) == \E info \in DotnetInfo(in) : info.Version >= 10

\* getTargetArchitecture, with the runtime identifiers 1 for x64, 2 for arm64 and 3 for
\* another: {} for an error, {""} where there is no choice.
TargetArchitecture(p, configured, info) ==
    CASE p.platform \notin {"darwin", "win32"} -> {""}
      [] p.platform \in {"darwin", "win32"} /\ configured # "" -> {configured} \cap {"x86_64", "arm64"}
      [] p.platform \in {"darwin", "win32"} /\ configured = "" /\ info.Version < 60 -> {"x86_64"}
      [] OTHER -> CASE info.RuntimeId = 2 -> {"arm64"}
                    [] info.RuntimeId = 1 -> {"x86_64"}
                    [] OTHER -> {}

\* getArchitectureFromTargetPlatform: of the manifest of a build that has one, {} for an
\* error, and the process's own where none is said.
ArchitectureFromTargetPlatform(manifest, process) ==
    CASE manifest \in {"no file", "linux-armhf", "web"} -> {process}
      [] manifest \in {"win32-x64", "linux-x64", "alpine-x64", "darwin-x64"} -> {"x64"}
      [] manifest \in {"win32-arm64", "linux-arm64", "alpine-arm64", "darwin-arm64"} -> {"arm64"}
      [] manifest = "win32-ia32" -> {"x86"}
      [] OTHER -> {}

-----------------------------------------------------------------------------
(* The default solution.                                                     *)

\* defaultSolution: of a workspace with several folders an absolute path of the
\* workspace itself, otherwise the first folder that has one; a path is its folder,
\* 0 for an absolute one, and its name.
DefaultSolution(in) ==
    LET own == in.workspace
        set == SelectSeq([i \in DOMAIN in.folders |-> i], LAMBDA i : in.folders[i] \notin {"", "disable"})
    IN  CASE own = "disable" -> <<0, "disable">>
          [] own # "disable" /\ Len(in.folders) > 1 /\ in.absolute /\ own # "" -> <<0, own>>
          [] own # "disable" /\ ~(Len(in.folders) > 1 /\ in.absolute /\ own # "") /\ set # <<>> ->
                 <<set[1], in.folders[set[1]]>>
          [] OTHER -> <<0, "">>

-----------------------------------------------------------------------------
(* Correctness.                                                              *)

\* A supported machine has an architecture the packages name; the distribution does not
\* depend on lines after the two that count, nor on their order.
PlatformCorrect(in) ==
    /\ \A p \in Platform(in) :
           IsSupportedPlatform(p) /\ p.platform # "darwin" => p.architecture \in {"x86_64", "arm64", "x86", "i686"}
    /\ in.os = "linux" => Distribution(in.releases) = Distribution([i \in DOMAIN in.releases |->
           [in.releases[i] EXCEPT !.lines = Reverse(@)]])

\* The version is of the last line that gives one, which is that of the host and not of
\* the SDK (getDotnetInfo.ts:53-63), and with it the architecture of the debugger is
\* one it is built for.
DotnetCorrect(in) ==
    \A info \in DotnetInfo(in) :
        /\ \E i \in DOMAIN in.lines :
               /\ in.lines[i] = [key |-> "Version", value |-> info.Version]
               /\ \A j \in i + 1 .. Len(in.lines) : in.lines[j].key # "Version"
        /\ \A p \in Platform(in) : TargetArchitecture(p, in.configured, info) \subseteq {"", "x86_64", "arm64"}
        /\ info.CliPath # "PATH" => \E i \in DOMAIN in.paths : in.paths[i].exists

\* A solution of a folder is taken only if no folder before has one (options.ts:113-152).
SolutionCorrect(in) ==
    LET d == DefaultSolution(in) IN
    /\ d[1] # 0 => \A i \in 1 .. d[1] - 1 : in.folders[i] \in {"", "disable"}
    /\ in.workspace = "disable" => d = <<0, "disable">>

HostCorrect(in) ==
    CASE in.task = "platform" -> PlatformCorrect(in)
      [] in.task = "dotnet" -> DotnetCorrect(in)
      [] in.task = "solution" -> SolutionCorrect(in)
=============================================================================
