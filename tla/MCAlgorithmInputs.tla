--------------------------- MODULE MCAlgorithmInputs --------------------------
(* The inputs of the algorithms of Algorithms: small sets that have every case
   the code tells apart, and their combinations where they can meet.            *)
EXTENDS Integers, Sequences, FiniteSets

Seqs(S, n) == UNION {[1 .. k -> S] : k \in 0 .. n}

-----------------------------------------------------------------------------
(* ProcessPicker.                                                            *)

Process(dotnet, name, pid, commandLine) ==
    [dotnet |-> dotnet, name |-> name, pid |-> pid, commandLine |-> commandLine]

\* Up to four processes: hosts with a command line, an empty one and none, and others.
ProcessLists ==
    {[i \in DOMAIN s |-> [s[i] EXCEPT !.pid = i]] :
        s \in Seqs({Process(TRUE, 1, 0, -1), Process(TRUE, 1, 0, 0), Process(TRUE, 1, 0, 1),
                    Process(FALSE, 2, 0, -1), Process(FALSE, 3, 0, 1)}, 4)}

Local ==
    {[task |-> "local", outcome |-> o, platform |-> p, powerShell |-> w, processes |-> s] :
        o \in {"ok", "bogus", "stderr"}, p \in {"win32", "linux"}, w \in BOOLEAN, s \in ProcessLists}

ArgLists == Seqs({"${debuggerCommand}", "spaced", "bare"}, 2)
Part(program, args, quote) == [program |-> program, args |-> args, quote |-> quote]
Configs ==
    {[program |-> p, args |-> a, quote |-> q, specific |-> s] :
        p \in {"System32", "ssh"}, a \in ArgLists, q \in {"none", "yes", "no"},
        s \in {<<>>, [win32 |-> Part("", <<>>, "none")], [win32 |-> Part("ssh", <<"bare">>, "no")]}}

Remote ==
    {[task |-> "remote", config |-> c, outcome |-> o, system |-> s, listed |-> l, platform |-> p,
      x64 |-> TRUE, exists |-> [system32 |-> e, sysnative |-> TRUE], asString |-> string,
      processes |-> <<Process(FALSE, 3, 1, 1), Process(TRUE, 1, 2, -1), Process(TRUE, 1, 3, 1)>>] :
        c \in {{}} \cup {{x} : x \in Configs}, o \in {"ok", "stderr"}, s \in {"Linux", "SunOS"},
        l \in BOOLEAN, p \in {"win32", "linux"}, e \in BOOLEAN, string \in BOOLEAN}

-----------------------------------------------------------------------------
(* DotnetHost.                                                               *)

Releases ==
    {[readable |-> r, lines |-> s] :
        r \in BOOLEAN, s \in {<<>>} \cup
            {<<[key |-> a, value |-> "one"], [key |-> b, value |-> "two"]>> :
                a \in {"ID", "VERSION_ID", "NAME"}, b \in {"ID", "VERSION_ID", "NAME"}}}

NoDistribution == <<[readable |-> FALSE, lines |-> <<>>]>>

Platforms ==
    {[task |-> "platform", os |-> o, processor |-> p, wow64 |-> w, uname |-> u, musl |-> m,
      releases |-> <<r>>] :
        o \in {"win32", "darwin", "linux", "freebsd"}, p \in {"x86", "AMD64", "ARM64"}, w \in BOOLEAN,
        u \in {"none", "x86_64", "aarch64", "i686"}, m \in BOOLEAN,
        r \in {x \in Releases : x.lines = <<>> \/ x.lines[1].key # x.lines[2].key}}

Dotnets ==
    {[task |-> "dotnet", runs |-> r, lines |-> s, paths |-> p,
      runtimes |-> <<[name |-> "app"], [name |-> "app"]>>, configured |-> c,
      os |-> o, processor |-> "ARM64", wow64 |-> FALSE, uname |-> "aarch64", musl |-> FALSE] :
        r \in BOOLEAN, c \in {"", "x86_64", "arm64", "mips"}, o \in {"win32", "darwin", "linux"},
        p \in {<<>>, <<[name |-> "a", exists |-> FALSE], [name |-> "b", exists |-> TRUE]>>},
        s \in UNION {[1 .. n -> {[key |-> "Version", value |-> 50], [key |-> "Version", value |-> 80],
                                 [key |-> "RID", value |-> 1], [key |-> "RID", value |-> 2]}] : n \in 0 .. 3}}

Solutions ==
    {[task |-> "solution", workspace |-> w, absolute |-> a, folders |-> f] :
        w \in {"", "disable", "all.sln"}, a \in BOOLEAN,
        f \in Seqs({"", "disable", "one.sln"}, 3)}

-----------------------------------------------------------------------------
(* LanguageFeatures.                                                         *)

Completions ==
    {[task |-> "completion", items |-> s, virtual |-> v, response |-> r] :
        v \in BOOLEAN,
        s \in Seqs({[label |-> "await", edits |-> TRUE, place |-> 1],
                    [label |-> "await", edits |-> FALSE, place |-> 2],
                    [label |-> "name", edits |-> FALSE, place |-> 3]}, 4),
        r \in {[changes |-> TRUE, line |-> 0, column |-> 1], [changes |-> TRUE, line |-> 1, column |-> 1]}}

Element(kind, name, parent, framework, method, named, path) ==
    [kind |-> kind, name |-> name, parent |-> parent, framework |-> framework, method |-> method,
     named |-> named, path |-> path]
Methods(parent) ==
    {Element("method", n, parent, f, m, r, <<n>>) :
        n \in {"Equals", "Run"}, f \in {"", "xunit", "nunit"}, m \in {"", "A.Run"}, r \in {TRUE}}
Structures ==
    {[task |-> "structure", references |-> r, tests |-> t, filtered |-> f, elements |->
        <<Element("namespace", "A", 0, "", "", TRUE, <<"A">>),
          Element("namespace", "B", 1, "", "", TRUE, p),
          Element("class", "C", 2, "", "", n, <<"C">>), m1, m2>>] :
        r \in BOOLEAN, t \in BOOLEAN, f \in {{}, {"C", "Run"}}, p \in {<<"A", "B">>, <<"B">>, <<"A">>},
        n \in BOOLEAN, m1 \in Methods(3), m2 \in {[m EXCEPT !.named = FALSE] : m \in Methods(3)} \cup Methods(3)}

Span(type, static, a, b, c, d) ==
    [type |-> type, static |-> static, startLine |-> a, start |-> b, endLine |-> c, end |-> d]
Types == {"Keyword", "ConstantName", "RegexSelfEscapedCharacter", "RegexOtherEscape", "WhiteSpace"}
Tokens ==
    {[task |-> "tokens", lines |-> <<2, l, 3>>, scheme |-> s, highlighting |-> h, before |-> 1,
      after |-> v, spans |->
        <<Span(t, st, 1, 1, e, IF e = 1 THEN 2 ELSE 1), Span(u, FALSE, e, IF e = 1 THEN 2 ELSE 1, 3, 2)>>] :
        l \in {1, 3}, s \in {"file", "git"}, h \in BOOLEAN, v \in {1, 2}, t \in Types, u \in Types,
        st \in BOOLEAN, e \in 1 .. 3}

Change(type, file, edits) == [type |-> type, file |-> file, edits |-> edits]
Edits ==
    {[task |-> "edit", changes |-> s, scope |-> o, choice |-> c] :
        o \in {"Document", "Project", "Solution"},
        c \in {[all |-> TRUE, id |-> "", message |-> <<"">>], [all |-> FALSE, id |-> "IDE1", message |-> <<"a", "b">>]},
        s \in Seqs({Change("modified", "f", 1), Change("modified", "f", 2), Change("modified", "g", 1),
                    Change("renamed", "f", 0), Change("opened", "f", 0), Change("opened", "g", 0)}, 3)}

Symbols ==
    {[task |-> "symbols", minLength |-> m, maxItems |-> x, search |-> 2, symbols |-> s] :
        m \in {0, 2, 3}, x \in {0, 2},
        s \in Seqs({[generated |-> TRUE, kind |-> "Class"], [generated |-> FALSE, kind |-> "Method"],
                    [generated |-> FALSE, kind |-> "Delegate"]}, 3)}

-----------------------------------------------------------------------------
(* RazorEndpoints.                                                           *)

Positions == {<<0, 0>>, <<0, 1>>, <<1, 0>>, <<1, 3>>, <<2, 0>>, <<3, 1>>}
HtmlEdits ==
    {[start |-> p, end |-> q] : p \in Positions, q \in Positions}
OrderedEdits ==
    {e \in HtmlEdits : e.start[1] < e.end[1] \/ (e.start[1] = e.end[1] /\ e.start[2] <= e.end[2])}
Formattings ==
    {[task |-> "formatting", found |-> f, answered |-> a, text |-> t, edits |-> <<e>>] :
        f \in BOOLEAN, a \in BOOLEAN, t \in Seqs({"x", "CR", "LF"}, 4), e \in OrderedEdits}

HtmlItems ==
    {[kind |-> k, snippet |-> s, keepWhitespace |-> w, range |-> r] :
        k \in {-1, 0, 1, 9}, s \in BOOLEAN, w \in {"", "yes", "no"}, r \in {"none", "plain", "inserting", "both"}}
HtmlCompletions ==
    {[task |-> "htmlCompletion", found |-> f, shape |-> s, incomplete |-> i, items |-> <<a>>] :
        f \in BOOLEAN, s \in {"array", "list", "none"}, i \in BOOLEAN, a \in HtmlItems}

Endpoints ==
    {[task |-> "endpoint", kind |-> "highlight", found |-> f, answer |-> a] :
        f \in BOOLEAN, a \in Seqs(-1 .. 2, 3)}
    \cup {[task |-> "endpoint", kind |-> "folding", found |-> TRUE, answer |-> a] :
        a \in Seqs({"undefined", "comment", "imports", "region", "other"}, 2)}
    \cup {[task |-> "endpoint", kind |-> "hover", found |-> TRUE, answer |-> a] :
        a \in Seqs({[range |-> r, contents |-> c] :
                    r \in BOOLEAN, c \in {<<"code">>, <<"text", "code">>}}, 2)}

Titles ==
    {[task |-> "titles", actions |-> s] :
        s \in Seqs({[path |-> p, flavors |-> f] :
                    p \in {<<"a">>, <<"a", "b">>, <<"a", "b", "c">>, <<"d", "b">>}, f \in BOOLEAN}, 2)}

AllInputs ==
    [local |-> Local, remote |-> Remote, platform |-> Platforms, dotnet |-> Dotnets,
     solution |-> Solutions, completion |-> Completions, structure |-> Structures,
     tokens |-> Tokens, edit |-> Edits, symbols |-> Symbols, formatting |-> Formattings,
     htmlCompletion |-> HtmlCompletions, endpoint |-> Endpoints, titles |-> Titles]
=============================================================================
