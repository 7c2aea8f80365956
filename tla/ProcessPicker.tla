---------------------------- MODULE ProcessPicker ----------------------------
(* Listing the processes the debugger can be attached to, of this machine or
   through a pipe (shared/processPicker.ts): which tool is asked, what its output
   is parsed to, and the order of the list.

   A process is [dotnet, name, pid, commandLine]: whether it has the name of the
   dotnet host, the rank of its lower-case name, and the rank of its command line,
   with EmptyCommandLine, before all others, for the empty text, and NoCommandLine
   for one that is undefined.  A line of a tool's output is a record of what the
   regular expression or the prefix tests tell apart.                           *)
EXTENDS Integers, Sequences, FiniteSets

LOCAL INSTANCE SequencesExt
LOCAL INSTANCE StableSort

NoCommandLine == -1
EmptyCommandLine == 0
NoProcess == [dotnet |-> FALSE, name |-> 0, pid |-> 0, commandLine |-> NoCommandLine]

Failed(why) == [error |-> why, items |-> <<>>]
Listed(items) == [error |-> "", items |-> items]

-----------------------------------------------------------------------------
(* The order.                                                                *)

\* The comparison of sortProcessEntries, which is -1 or 1: the dotnet hosts first, by
\* their command lines, and the others by their names.
\* Mutant: a host whose command line is undefined is before the others.
BeforeUnknownFirst(a, b) ==
    CASE a.dotnet /\ b.dotnet -> a.commandLine < b.commandLine
      [] a.dotnet /\ ~b.dotnet -> TRUE
      [] ~a.dotnet /\ b.dotnet -> FALSE
      [] OTHER -> a.name < b.name

Before(a, b) ==
    CASE a.dotnet /\ b.dotnet ->
             IF a.commandLine # NoCommandLine /\ b.commandLine # NoCommandLine
             THEN a.commandLine < b.commandLine
             ELSE a.commandLine # NoCommandLine
      [] a.dotnet /\ ~b.dotnet -> TRUE
      [] ~a.dotnet /\ b.dotnet -> FALSE
      [] OTHER -> a.name < b.name

SortProcessEntries(entries) == StableSort(entries, Before)

-----------------------------------------------------------------------------
(* The parsers.                                                              *)

\* parseProcessFromPs and parseProcessFromPsArray, of the lines after the header: an
\* empty one, and one the expression does not match, are skipped.
ParseLineFromPs(line) == line.process
ParseProcessFromPs(lines) ==
    LET rows == SelectSeq(Tail(lines), LAMBDA l : l.kind = "process")
    IN  [i \in DOMAIN rows |-> ParseLineFromPs(rows[i])]

\* Both prefixes of a long path are cut, one after the other; ConvertTo-Json of a
\* list of one is no list, which map rejects.
ParseProcessFromCim(infos) ==
    IF Len(infos) = 1 THEN Failed("not a list") ELSE Listed(infos)

\* Each line sets a property of the current process, and the line with its id, the
\* last one, ends it.  Nothing behind the sign is the empty text.
ParseLineFromWmic(line, process) ==
    CASE line.key = "Name" -> [process EXCEPT !.name = line.value, !.dotnet = line.dotnet]
      [] line.key = "ProcessId" -> [process EXCEPT !.pid = line.value]
      [] line.key = "CommandLine" -> [process EXCEPT !.commandLine = line.value]
      [] OTHER -> process

ParseProcessFromWmic(lines) ==
    LET current[i \in 0 .. Len(lines)] ==       \* the process after i lines
            IF i = 0 \/ lines[i].key = "ProcessId" THEN NoProcess
            ELSE ParseLineFromWmic(lines[i], current[i - 1])
        ids == SelectSeq([i \in DOMAIN lines |-> i], LAMBDA i : lines[i].key = "ProcessId")
    IN  [k \in DOMAIN ids |-> ParseLineFromWmic(lines[ids[k]], current[ids[k] - 1])]

-----------------------------------------------------------------------------
(* What the tools print, external.                                           *)

\* A process without a command line, or whose command line may not be read, has an
\* empty column in the output of ps and an empty value in that of wmic.
Printed(commandLine) == IF commandLine = NoCommandLine THEN EmptyCommandLine ELSE commandLine

PsLine(p) == [kind |-> "process", process |-> [p EXCEPT !.commandLine = Printed(@)]]
PsHeader == [kind |-> "header", process |-> NoProcess]
PsBlank == [kind |-> "blank", process |-> NoProcess]
PsPrints(processes) ==
    <<PsHeader>> \o [i \in DOMAIN processes |-> PsLine(processes[i])] \o <<PsBlank>>

WmicLine(key, value, dotnet) == [key |-> key, value |-> value, dotnet |-> dotnet]
WmicPrints(processes) ==
    FlattenSeq([i \in DOMAIN processes |->
        LET p == processes[i] IN
        <<WmicLine("CommandLine", Printed(p.commandLine), FALSE), WmicLine("Name", p.name, p.dotnet),
          WmicLine("ProcessId", p.pid, FALSE), WmicLine("", 0, FALSE)>>])

-----------------------------------------------------------------------------
(* This machine.                                                             *)

\* execChildProcess: an error rejects, and so does anything on stderr but a remark
\* about the size of the screen.
ExecChildProcess(outcome) == outcome \in {"ok", "bogus"}

\* DotNetAttachItemsProviderFactory.Get
Provider(platform, powerShell) ==
    CASE platform = "win32" /\ powerShell -> "cim"
      [] platform = "win32" /\ ~powerShell -> "wmic"
      [] OTHER -> "ps"

SortedIfListed(r) == IF r.error # "" THEN r ELSE Listed(SortProcessEntries(r.items))

GetAttachItems(in) ==
    IF ~ExecChildProcess(in.outcome) THEN Failed("tool")
    ELSE LET provider == Provider(in.platform, in.powerShell) IN
         SortedIfListed(
            CASE provider = "cim" -> ParseProcessFromCim(in.processes)
              [] provider = "wmic" -> Listed(ParseProcessFromWmic(WmicPrints(in.processes)))
              [] provider = "ps" -> Listed(ParseProcessFromPs(PsPrints(in.processes))))

-----------------------------------------------------------------------------
(* Through a pipe.                                                           *)

Shell == "sh -s"
Debugger == "${debuggerCommand}"

\* getPlatformSpecificPipeTransportOptions and getPipeTransportOptions: what the part
\* for the platform gives, and otherwise what the whole gives; "" is not given.
GetPlatformSpecificPipeTransportOptions(config, platform) ==
    IF platform \in DOMAIN config.specific
    THEN config.specific[platform]
    ELSE [program |-> "", args |-> <<>>, quote |-> "none"]

GetPipeTransportOptions(config, platform) ==
    LET specific == GetPlatformSpecificPipeTransportOptions(config, platform) IN
    [program |-> IF specific.program # "" THEN specific.program ELSE config.program,
     args |-> IF specific.args # <<>> THEN specific.args ELSE config.args,
     quote |-> CASE specific.quote # "none" -> specific.quote
                 [] specific.quote = "none" /\ config.quote # "none" -> config.quote
                 [] OTHER -> "yes"]

\* On 64-bit Windows a program that is only in the folder behind System32.
ValidateAndFixPipeProgram(program, in) ==
    IF in.platform = "win32" /\ in.x64 /\ program = "System32" /\ ~in.exists.system32 /\ in.exists.sysnative
    THEN "sysnative" ELSE program

\* quoteArg: an argument with a space.
QuoteArg(arg, quote) == [text |-> arg, quoted |-> quote /\ arg \in {Shell, "spaced"}]

\* createPipeCmdFromArray: the shell instead of the placeholders, or at the end.
CreatePipeCmdFromArray(program, args, quote) ==
    LET replaced == [i \in DOMAIN args |-> IF args[i] = Debugger THEN Shell ELSE args[i]]
        list == <<program>> \o IF Debugger \in ToSet(args) THEN replaced ELSE Append(args, Shell)
    IN  [i \in DOMAIN list |-> QuoteArg(list[i], quote)]

\* createPipeCmdFromString: the arguments are one text, whose parts are not quoted,
\* while the program always is; only an appended shell follows the option.
CreatePipeCmdFromString(program, args, quote) ==
    <<QuoteArg(program, TRUE)>> \o
    IF Debugger \in ToSet(args)
    THEN [i \in DOMAIN args |-> QuoteArg(IF args[i] = Debugger THEN Shell ELSE args[i], FALSE)]
    ELSE Append([i \in DOMAIN args |-> QuoteArg(args[i], FALSE)], QuoteArg(Shell, quote))

CreatePipeCmd(options, in) ==
    LET program == ValidateAndFixPipeProgram(options.program, in) IN
    IF in.asString
    THEN CreatePipeCmdFromString(program, options.args, options.quote = "yes")
    ELSE CreatePipeCmdFromArray(program, options.args, options.quote = "yes")

\* getRemoteOSAndProcesses: the first line is the system, the header and the
\* processes follow.
GetRemoteOSAndProcesses(lines) ==
    CASE lines[1] \notin {"Linux", "Darwin"} -> Failed("system")
      [] lines[1] \in {"Linux", "Darwin"} /\ Len(lines) = 1 -> Failed("no list")
      [] OTHER -> Listed(SortProcessEntries(ParseProcessFromPs(Tail(lines))))

\* execChildProcessAndOutputErrorToChannel: here anything on stderr rejects.
ExecChildProcessAndOutputError(outcome) == outcome = "ok"

\* ShowAttachEntries of RemoteAttachPicker, up to the quick pick.
ShowRemoteEntries(in) ==
    CASE in.config = {} -> Failed("no pipeTransport")
      [] in.config # {} /\ ~ExecChildProcessAndOutputError(in.outcome) -> Failed("pipe")
      [] OTHER -> GetRemoteOSAndProcesses(<<in.system>> \o IF in.listed THEN PsPrints(in.processes) ELSE <<>>)

-----------------------------------------------------------------------------
(* Correctness.                                                              *)

\* The dotnet hosts are first, by their command lines, and the others by their names
\* (processPicker.ts:346-376).  A command line that is undefined, which only PowerShell
\* gives, is behind the others; an empty one, which is what ps and wmic give of such a
\* process (:482, :607), is before them.
Sorted(items) ==
    \A i, j \in DOMAIN items : i < j =>
        LET a == items[i] b == items[j] IN
        /\ b.dotnet => a.dotnet
        /\ (a.dotnet = b.dotnet /\ ~a.dotnet) => a.name <= b.name
        /\ (a.dotnet /\ b.dotnet) =>
               \/ b.commandLine = NoCommandLine
               \/ a.commandLine # NoCommandLine /\ a.commandLine <= b.commandLine

\* The list has the processes of the machine, each once and with what is known of it.
Lists(items, processes, As(_)) ==
    /\ Len(items) = Len(processes)
    /\ ToSet(items) = {[p EXCEPT !.commandLine = As(@)] : p \in ToSet(processes)}
    /\ Sorted(items)

\* The processes of a tool that succeeds are listed; a list of one of PowerShell's
\* is refused (:521-537).
LocalCorrect(in) ==
    LET r == GetAttachItems(in)
        As(commandLine) == IF Provider(in.platform, in.powerShell) = "cim" THEN commandLine
                           ELSE Printed(commandLine)
    IN  r.error = "" => Lists(r.items, in.processes, As)

RemoteCorrect(in) ==
    LET r == ShowRemoteEntries(in) IN
    /\ r.error = "" => Lists(r.items, in.processes, Printed)
    /\ (in.config # {} /\ in.outcome = "ok" /\ in.system = "Linux" /\ in.listed) => r.error = ""

\* A command of the pipe runs the shell, the program comes first, and with the array
\* and quoting no argument with a space is left bare (:145-217).
PipeCorrect(in) ==
    \A config \in in.config :
        LET options == GetPipeTransportOptions(config, in.platform)
            cmd == CreatePipeCmd(options, in)
        IN  /\ \E i \in 2 .. Len(cmd) : cmd[i].text = Shell
            /\ \A i \in DOMAIN cmd : cmd[i].text # Debugger
            /\ (options.quote = "yes" /\ ~in.asString) =>
                   \A i \in DOMAIN cmd : cmd[i].text \in {Shell, "spaced"} => cmd[i].quoted
            /\ config.quote = "none" /\ config.specific = <<>> => options.quote = "yes"
            /\ Len(cmd) <= Len(options.args) + 2

PickerCorrect(in) ==
    CASE in.task = "local" -> LocalCorrect(in)
      [] in.task = "remote" -> RemoteCorrect(in) /\ PipeCorrect(in)
=============================================================================
