---------------------------- MODULE RazorEndpoints ----------------------------
(***************************************************************************)
(* What the Razor endpoints make of the answers for the Html document      *)
(* (lsptoolshost/razor/razorEndpoints.ts, razor/src/completion, formatting *)
(* and folding), and of the nested code actions of the Roslyn server       *)
(* (lsptoolshost/diagnostics/nestedCodeAction.ts).                         *)
(*                                                                         *)
(* An input has a document, found by getDocument or not, and an answer.    *)
(* A position is a pair of a line and a character, both from zero; a text  *)
(* is a sequence of characters, of which the ends of lines are told apart. *)
(***************************************************************************)
EXTENDS Integers, Sequences, FiniteSets, SequencesExt

Undefined == -1

-----------------------------------------------------------------------------
(* Formatting.                                                               *)

CountLines(text) == Len(SelectSeq(text, LAMBDA c : c = "LF"))

\* The loop over the text; "\r\n" is taken at once, a "\r" alone is a character.
GetLastLineLength(text) ==
    LET length[i \in 0 .. Len(text)] ==
            CASE i = 0 -> 0
              [] i > 0 /\ text[i] = "LF" -> 0
              [] i > 0 /\ i < Len(text) /\ text[i] = "CR" /\ text[i + 1] = "LF" -> 0
              [] OTHER -> length[i - 1] + 1
    IN  length[Len(text)]

EndOf(text) == <<CountLines(text), GetLastLineLength(text)>>

AtOrBefore(p, q) == p[1] < q[1] \/ (p[1] = q[1] /\ p[2] <= q[2])

\* vscode.Range swaps its ends when they are given the other way round.
NewRange(p, q) == IF AtOrBefore(p, q) THEN [start |-> p, end |-> q] ELSE [start |-> q, end |-> p]

\* Mutant: only the end is looked at.
SanitizeEnd(edit, text) ==
    IF edit.end[1] <= CountLines(text) THEN edit ELSE NewRange(edit.start, EndOf(text))

\* sanitizeTextEdits: a position on a line after the last is moved to the end.
Sanitize(edit, text) ==
    LET Inside(p) == IF p[1] > CountLines(text) THEN EndOf(text) ELSE p IN
    IF edit.start[1] <= CountLines(text) /\ edit.end[1] <= CountLines(text) THEN edit
    ELSE NewRange(Inside(edit.start), Inside(edit.end))

\* The whole document is formatted as a range, to work around a setting.
FormattedRange(text) == NewRange(<<0, 0>>, EndOf(text))
Formatting(in) ==
    IF ~in.found \/ ~in.answered THEN <<>>
    ELSE [i \in DOMAIN in.edits |-> Sanitize(in.edits[i], in.text)]

\* Where the text of the last line begins, to compare with.
LineStart(text) ==
    CHOOSE i \in 1 .. Len(text) + 1 :
        /\ i = 1 \/ text[i - 1] = "LF"
        /\ \A j \in i .. Len(text) : text[j] # "LF"

\* An edit stays as it is when its lines exist, and reaches no line after the last; the
\* range asked for ends where the text does.
FormattingCorrect(in) ==
    LET edits == Formatting(in) end == FormattedRange(in.text).end IN
    /\ end[2] = Len(in.text) - LineStart(in.text) + 1
    /\ \A i \in DOMAIN edits :
           /\ AtOrBefore(edits[i].start, edits[i].end)
           /\ edits[i].end[1] <= end[1]
           /\ in.edits[i].end[1] <= end[1] => edits[i] = in.edits[i]
           /\ in.edits[i].start[1] > end[1] => edits[i].start = end

-----------------------------------------------------------------------------
(* Completion: an item is [kind, text, snippet, keepWhitespace, range], text *)
(* and range possibly none; kinds are numbers, which VS Code counts from 0   *)
(* and the protocol from 1.                                                  *)

\* No kind and the kind 0 are both left as they are.
ToKind(kind) == IF kind \in {Undefined, 0} THEN kind ELSE kind + 1

\* toLspTextEdit: a range, or both of the two to insert and to replace.
ToLspTextEdit(item) ==
    CASE item.range = "plain" -> {"edit"}
      [] item.range = "both" -> {"insertReplace"}
      [] OTHER -> {}

ToItem(item) ==
    [kind |-> ToKind(item.kind),
     format |-> IF item.snippet THEN "snippet" ELSE "plainText",
     mode |-> CASE item.keepWhitespace = "" -> "" [] item.keepWhitespace = "yes" -> "asIs"
                [] OTHER -> "adjustIndentation",
     edit |-> ToLspTextEdit(item)]

\* The answer is an array, a list, or none.
ProvideVscodeCompletions(in) ==
    IF ~in.found THEN {}
    ELSE {[incomplete |-> in.shape = "list" /\ in.incomplete,
           items |-> IF in.shape = "none" THEN <<>> ELSE [i \in DOMAIN in.items |-> ToItem(in.items[i])]]}

\* A list keeps the items with their kinds, and only a snippet is inserted as one.
CompletionsCorrect(in) ==
    \A list \in ProvideVscodeCompletions(in) :
        /\ in.shape # "none" => Len(list.items) = Len(in.items)
        /\ list.incomplete => in.shape = "list"
        /\ \A i \in DOMAIN list.items :
               LET item == in.items[i] IN
               /\ item.kind > 0 => list.items[i].kind = item.kind + 1
               /\ list.items[i].format = "snippet" <=> item.snippet
               /\ item.range = "plain" => list.items[i].edit # {}
               /\ item.range \in {"inserting", "none"} => list.items[i].edit = {}

-----------------------------------------------------------------------------
(* The other endpoints: kinds of highlights and folding ranges, the hover.   *)

ConvertHighlightKind(kind) == IF kind \in 0 .. 2 THEN kind + 1 ELSE Undefined

ConvertFoldingRangeKind(kind) ==
    IF kind \in {"comment", "imports", "region"} THEN kind ELSE "undefined"

\* The first hover that has a range, its code in blocks.
ApplicableHover(hovers) ==
    LET ranged == SelectSeq(hovers, LAMBDA h : h.range) IN
    IF ranged = <<>> THEN {}
    ELSE {[i \in DOMAIN ranged[1].contents |->
              IF ranged[1].contents[i] = "code" THEN "block" ELSE "markdown"]}

Answer(in) ==
    CASE ~in.found -> <<>>
      [] in.kind = "hover" -> SetToSeq(ApplicableHover(in.answer))
      [] in.kind = "highlight" -> [i \in DOMAIN in.answer |-> ConvertHighlightKind(in.answer[i])]
      [] in.kind = "folding" -> [i \in DOMAIN in.answer |-> ConvertFoldingRangeKind(in.answer[i])]

\* Kinds that the protocol has stay apart, and a hover with a range is given.
EndpointsCorrect(in) ==
    LET answer == Answer(in) IN
    /\ in.kind \in {"highlight", "folding"} /\ in.found => Len(answer) = Len(in.answer)
    /\ in.kind = "highlight" =>
           \A i, j \in DOMAIN answer : (answer[i] = answer[j] /\ answer[i] # Undefined) => in.answer[i] = in.answer[j]
    /\ (in.kind = "hover" /\ in.found) =>
           (answer = <<>> <=> \A i \in DOMAIN in.answer : ~in.answer[i].range)

-----------------------------------------------------------------------------
(* Nested code actions: an action is [path, flavors], its path a sequence.   *)

\* getCodeActionTitles: a path of one string is returned without its action.
CodeActionTitles(actions) ==
    [i \in DOMAIN actions |->
        IF Len(actions[i].path) = 1 THEN [label |-> actions[i].path, fixAll |-> FALSE, action |-> {}]
        ELSE [label |-> Tail(actions[i].path), fixAll |-> actions[i].flavors, action |-> {actions[i]}]]

\* What the choice of a title asks of the server.
Asked(title) ==
    {IF a.flavors THEN <<"fixAllScope", a>> ELSE <<"resolve", a>> : a \in title.action}

\* Each title leads to its own action, and titles that look alike to actions alike.
TitlesCorrect(in) ==
    LET titles == CodeActionTitles(in.actions) IN
    /\ \A i \in DOMAIN titles :
           Len(in.actions[i].path) > 1 => \E q \in Asked(titles[i]) : q[2] = in.actions[i]
    /\ \A i, j \in DOMAIN titles :
           (titles[i].label = titles[j].label /\ titles[i].fixAll = titles[j].fixAll
            /\ titles[i].action # {} /\ titles[j].action # {}
            /\ Head(in.actions[i].path) = Head(in.actions[j].path)) =>
               Asked(titles[i]) = Asked(titles[j])

-----------------------------------------------------------------------------
EndpointCorrect(in) ==
    CASE in.task = "formatting" -> FormattingCorrect(in)
      [] in.task = "htmlCompletion" -> CompletionsCorrect(in)
      [] in.task = "endpoint" -> EndpointsCorrect(in)
      [] in.task = "titles" -> TitlesCorrect(in)
=============================================================================
