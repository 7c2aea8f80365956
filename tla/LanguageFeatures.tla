-------------------------- MODULE LanguageFeatures --------------------------
(***************************************************************************)
(* What the providers of OmniSharp's language features make of its         *)
(* answers: completion items, code lenses, document symbols, semantic      *)
(* tokens, workspace edits, fixes of everything, and workspace symbols     *)
(* (omnisharp/features/, omnisharp/fileOperationsResponseEditBuilder.ts).  *)
(*                                                                         *)
(* A conversion is a function of an input, which "task" tells apart; its   *)
(* correctness is a predicate of the input.                                *)
(***************************************************************************)
EXTENDS Integers, Sequences, FiniteSets, SequencesExt, Functions

-----------------------------------------------------------------------------
(* Completion: an item is [label, edits, step], edits telling whether it has *)
(* additional text edits, step whether something follows its insertion.      *)

OfferedInRazor(item) == item.label # "await" \/ ~item.edits

\* The items of the list, each with the place of the answer's item it came from.
MappedItems(items, virtual) ==
    LET all == [i \in DOMAIN items |-> [item |-> items[i], of |-> i]]
    IN  IF virtual THEN SelectSeq(all, LAMBDA m : OfferedInRazor(m.item)) ELSE all

\* Mutant: the first item of the answer is taken for all.
LastCompletionsFirst(items, virtual) ==
    [i \in DOMAIN MappedItems(items, virtual) |-> items[1]]

\* #lastCompletions: the items of the list by place, with the answer's of the same place.
LastCompletions(items, virtual) ==
    [i \in DOMAIN MappedItems(items, virtual) |-> items[i]]

\* afterInsert applies its changes only with a place for the cursor, and the first line and
\* the first column are none.
AfterInsertApplies(response) ==
    response.changes /\ response.column # 0 /\ response.line # 0

\* An item is resolved with the answer's it came from, but where one was left out before it.
CompletionCorrect(in) ==
    LET mapped == MappedItems(in.items, in.virtual)
        last == LastCompletions(in.items, in.virtual)
    IN  /\ \A i \in DOMAIN mapped :
               (\A j \in 1 .. i : ~in.virtual \/ OfferedInRazor(in.items[j])) =>
                   last[i] = in.items[mapped[i].of]
        /\ in.virtual => \A i \in DOMAIN mapped : OfferedInRazor(mapped[i].item)
        /\ \A i, j \in DOMAIN mapped : i < j => mapped[i].of < mapped[j].of
        /\ AfterInsertApplies(in.response) => in.response.line > 0

-----------------------------------------------------------------------------
(* Code lenses and symbols, of the elements in the order walkCodeElements    *)
(* visits them: [kind, name, parent, framework, method, named], parent the   *)
(* place of the element around, named that a range of the name is there.     *)

Lens(kind, at, container, framework, methods) ==
    [kind |-> kind, at |-> at, container |-> container, framework |-> framework, methods |-> methods]

FilteredSymbolNames == {"Equals", "Finalize", "GetHashCode", "ToString", "Dispose", "GetEnumerator"}

IsValidElementForReferencesCodeLens(e, filtered) ==
    /\ e.kind # "namespace"
    /\ ~(e.kind = "method" /\ e.name \in FilteredSymbolNames)
    /\ e.name \notin filtered

\* getTest: both properties are there.
IsTest(e) == e.framework # "" /\ e.method # ""

TestsOf(elements, i) ==
    SelectSeq([j \in DOMAIN elements |-> j],
              LAMBDA j : elements[j].parent = i /\ elements[j].kind = "method" /\ IsTest(elements[j]))

RunAndDebug(at, container, framework, methods) ==
    <<Lens("run", at, container, framework, methods), Lens("debug", at, container, framework, methods)>>

\* "We don't handle multiple test frameworks in the same class. The first test framework wins."
ContainerLenses(elements, i) ==
    LET tests == TestsOf(elements, i)
        framework == elements[tests[1]].framework
        ofFirst == SelectSeq(tests, LAMBDA j : elements[j].framework = framework)
    IN  IF tests = <<>> THEN <<>>
        ELSE RunAndDebug(i, TRUE, framework, [k \in DOMAIN ofFirst |-> elements[ofFirst[k]].method])

CreateCodeLensesForElement(in, i) ==
    LET e == in.elements[i] IN
    (IF in.references /\ IsValidElementForReferencesCodeLens(e, in.filtered) /\ e.named
     THEN <<Lens("references", i, FALSE, "", <<>>)>> ELSE <<>>)
    \o (CASE in.tests /\ e.kind = "method" /\ IsTest(e) /\ e.named ->
                 RunAndDebug(i, FALSE, e.framework, <<e.method>>)
          [] in.tests /\ e.kind = "class" -> ContainerLenses(in.elements, i)
          [] OTHER -> <<>>)

\* A class with tests and no range of its name fails, and with it the whole document.
Fails(in) ==
    \E i \in DOMAIN in.elements :
        /\ in.tests /\ in.elements[i].kind = "class" /\ ~in.elements[i].named
        /\ TestsOf(in.elements, i) # <<>>

CreateCodeLenses(in) ==
    IF ~(in.references \/ in.tests) \/ Fails(in) THEN <<>>
    ELSE FlattenSeq([i \in DOMAIN in.elements |-> CreateCodeLensesForElement(in, i)])

\* The command of a lens: a container has one only in a project of MSBuild.
ResolveTestCodeLens(lens, msBuild) ==
    CASE ~lens.container -> <<lens.methods[1]>>
      [] lens.container /\ msBuild -> lens.methods
      [] OTHER -> <<>>

\* A name within a namespace loses the part it shares; namespaces are sequences here.
NameOfSymbol(e, around) ==
    IF e.kind = "namespace" /\ around.kind = "namespace"
       /\ Len(e.path) > Len(around.path) /\ IsPrefix(around.path, e.path)
    THEN SubSeq(e.path, Len(around.path) + 1, Len(e.path))
    ELSE e.path

\* Every test has lenses of its own, a class those of its first framework, each test it names
\* is one of its own, and no lens is on a name the options leave out.
StructureCorrect(in) ==
    LET lenses == ToSet(CreateCodeLenses(in)) IN
    /\ (in.tests /\ ~Fails(in)) =>
           \A i \in DOMAIN in.elements :
               LET e == in.elements[i] IN
               /\ (e.kind = "method" /\ IsTest(e) /\ e.named) =>
                      \E lens \in lenses : lens.kind = "debug" /\ lens.at = i
               /\ e.kind = "class" =>
                      \A lens \in lenses : lens.at = i /\ lens.container =>
                          \A method \in ToSet(lens.methods) :
                              \E j \in DOMAIN in.elements :
                                  /\ in.elements[j].parent = i /\ in.elements[j].method = method
                                  /\ in.elements[j].framework = lens.framework
    /\ \A lens \in lenses : lens.kind = "references" => in.elements[lens.at].name \notin in.filtered
    /\ \A lens \in lenses : lens.kind # "references" => ResolveTestCodeLens(lens, TRUE) # <<>>
    /\ \A i \in DOMAIN in.elements :
           LET e == in.elements[i] IN
           e.parent # 0 /\ e.kind = "namespace" =>
               LET around == in.elements[e.parent] name == NameOfSymbol(e, around) IN
               name = e.path \/ around.path \o name = e.path

-----------------------------------------------------------------------------
(* Semantic tokens: a span is [type, static, startLine, start, endLine, end],*)
(* of a document whose lines have the lengths of in.lines.                   *)

\* classificationToToken and tokenLegendMap for one classification of each kind.
TokenOf(type) ==
    CASE type = "Keyword" -> "keyword"
      [] type = "ConstantName" -> "variable"
      [] type = "PreprocessorKeyword" -> "macro"
      [] type = "RegexSelfEscapedCharacter" -> "regexText"
      [] type = "RegexOtherEscape" -> "regexSelfEscapedCharacter"
      [] type \in {"WhiteSpace", "Text", "StaticSymbol"} -> "none"

\* 2 ** readonly, and 2 ** static.
ModifiersOf(span) ==
    (IF span.static THEN 2 ELSE 0) + (IF span.type = "ConstantName" THEN 64 ELSE 0)

\* A span of several lines is a token on each.
TokensOf(span, lines) ==
    [k \in 1 .. span.endLine - span.startLine + 1 |->
        LET line == span.startLine + k - 1
            from == IF line = span.startLine THEN span.start ELSE 0
            to == IF line = span.endLine THEN span.end ELSE lines[line]
        IN  [line |-> line, start |-> from, length |-> to - from,
             token |-> TokenOf(span.type), modifiers |-> ModifiersOf(span)]]

SemanticTokens(in) ==
    FlattenSeq([i \in DOMAIN in.spans |->
        IF TokenOf(in.spans[i].type) = "none" THEN <<>> ELSE TokensOf(in.spans[i], in.lines)])

\* The document changed while the answer was awaited: 'busy'.
ProvideSemanticTokens(in) ==
    IF in.scheme # "file" \/ ~in.highlighting \/ in.before # in.after THEN <<>> ELSE SemanticTokens(in)

InSpan(span, line, c) ==
    /\ span.startLine <= line /\ line <= span.endLine
    /\ line = span.startLine => c >= span.start
    /\ line = span.endLine => c < span.end

\* A character is in a token exactly when a span with a type of token has it, and the
\* tokens of spans in order are in order, as the encoding as differences needs them.
TokensCorrect(in) ==
    LET tokens == ProvideSemanticTokens(in) IN
    /\ \A i, j \in DOMAIN tokens : i < j =>
           \/ tokens[i].line < tokens[j].line
           \/ tokens[i].line = tokens[j].line /\ tokens[i].start + tokens[i].length <= tokens[j].start
    /\ tokens # <<>> =>
           \A line \in DOMAIN in.lines : \A c \in 0 .. in.lines[line] - 1 :
               (\E i \in DOMAIN tokens : tokens[i].line = line /\ tokens[i].start <= c
                                         /\ c < tokens[i].start + tokens[i].length)
               <=> \E i \in DOMAIN in.spans : TokenOf(in.spans[i].type) # "none" /\ InSpan(in.spans[i], line, c)

-----------------------------------------------------------------------------
(* The workspace edit of a code action or of fixing all: changes are         *)
(* [type, file, edits, to].                                                  *)

Modified(changes) == SelectSeq(changes, LAMBDA c : c.type = "modified")
Renamed(changes) == SelectSeq(changes, LAMBDA c : c.type = "renamed")
Opened(changes) == SelectSeq(changes, LAMBDA c : c.type = "opened")

\* edit.set keeps the last edits of a file; renames follow; the last file to open is opened.
BuildEditForResponse(changes) ==
    LET modified == Modified(changes) opened == Opened(changes) IN
    [edits |-> [f \in {c.file : c \in ToSet(modified)} |->
                   Last(SelectSeq(modified, LAMBDA c : c.file = f)).edits],
     renames |-> Renamed(changes),
     opens |-> IF opened = <<>> THEN {} ELSE {Last(opened).file}]

\* fixAllMenu: the filter is read back from the text of the choice, which ends where the
\* message has a colon; messages are sequences of their parts between colons.
FilterOf(choice) ==
    IF choice.all THEN {} ELSE {[id |-> choice.id, message |-> Head(choice.message)]}

MenuOf(scope, fixes) == (IF scope = "Document" THEN <<"all">> ELSE <<>>) \o fixes

\* A file modified once gets its edits, a renamed one is, and the fix chosen is the one run.
EditCorrect(in) ==
    LET edit == BuildEditForResponse(in.changes) IN
    /\ \A i \in DOMAIN in.changes :
           LET c == in.changes[i] IN
           /\ (c.type = "modified" /\ \A j \in DOMAIN in.changes :
                 j > i => in.changes[j].type # "modified" \/ in.changes[j].file # c.file) =>
                  edit.edits[c.file] = c.edits
           /\ c.type = "renamed" => c \in ToSet(edit.renames)
    /\ Cardinality(edit.opens) <= 1
    /\ \A fix \in FilterOf(in.choice) : fix.id = in.choice.id
    /\ in.scope = "Document" <=> Head(MenuOf(in.scope, <<"fix">>)) = "all"

-----------------------------------------------------------------------------
(* Workspace symbols.                                                        *)

\* A search shorter than the option asks nothing; zero is no limit.
FoundSymbols(in) ==
    IF in.minLength > 0 /\ in.search < in.minLength THEN <<>>
    ELSE IF in.maxItems > 0 /\ in.maxItems < Len(in.symbols) THEN SubSeq(in.symbols, 1, in.maxItems)
    ELSE in.symbols

\* Symbols of generated code lead to their document and not to a file.
SymbolLocations(in) ==
    LET found == FoundSymbols(in) IN
    [i \in DOMAIN found |->
        [scheme |-> IF found[i].generated THEN "omnisharp-source-generated" ELSE "file",
         kind |-> IF found[i].kind \in {"Method", "Enum", "Class"} THEN found[i].kind ELSE "Class"]]

SymbolsCorrect(in) ==
    LET locations == SymbolLocations(in) IN
    /\ in.maxItems > 0 => Len(locations) <= in.maxItems
    /\ (in.minLength <= 0 /\ in.maxItems <= 0) => Len(locations) = Len(in.symbols)
    /\ \A i \in DOMAIN locations : locations[i].scheme = "file" <=> ~in.symbols[i].generated

-----------------------------------------------------------------------------
FeatureCorrect(in) ==
    CASE in.task = "completion" -> CompletionCorrect(in)
      [] in.task = "structure" -> StructureCorrect(in)
      [] in.task = "tokens" -> TokensCorrect(in)
      [] in.task = "edit" -> EditCorrect(in)
      [] in.task = "symbols" -> SymbolsCorrect(in)
=============================================================================
