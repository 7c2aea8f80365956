------------------------- MODULE OmniSharpDocuments -------------------------
(***************************************************************************)
(* Documents that are no files and go between the editor and OmniSharp:    *)
(* the C# of virtual documents (features/virtualDocumentTracker.ts), the   *)
(* output of source generators (features/sourceGeneratedDocumentProvider)  *)
(* and metadata as source (features/definitionMetadataDocumentProvider),   *)
(* the last two opened by going to a definition (definitionProvider).      *)
(*                                                                         *)
(* The kinds share no state: one of them is at work.  An info or a call is *)
(* a number, given out in order; a version is what a document holds.       *)
(***************************************************************************)
EXTENDS Naturals, FiniteSets

CONSTANTS
    Names,          \* documents
    MaxCalls,       \* bounds, in Nat: definitions gone to, documents opened,
    MaxVersions     \* and versions of a document

VARIABLES
    documentKind,
    text,           \* what the editor's document holds, Closed without one
    source,         \* the version the server would give, for a virtual document: holds
    calls,          \* infos or calls given out
    known,          \* _uriToDocumentInfo: the info of a name; of metadata, that it is kept
    responses,      \* _documents: the version kept with an info
    asked,          \* requests under way: [call, name, step, version]
    told,           \* the version the server gave last for an info
    renavigated,    \* ghost: names gone to again while their document was open
    crossed,        \* ghost: names closed with a request of theirs under way
    behind          \* ghost: names with a call that failed or a change not looked for

documentVars == <<documentKind, text, source, calls, known, responses, asked, told,
                  renavigated, crossed, behind>>

Closed == MaxVersions + 1       \* no version of a document
Deleted == MaxVersions + 2      \* 'Document is no longer being generated.'
Versions == 0 .. MaxVersions
Infos == 1 .. MaxCalls

Request(call, n, step, version) == [call |-> call, name |-> n, step |-> step, version |-> version]
Asks(n) == {r \in asked : r.name = n}

-----------------------------------------------------------------------------
(* Virtual documents.  trackCurrentVirtualDocuments does at the start of the *)
(* server for the open ones what their opening does.                         *)

\* openVirtualDocument: the file is created, and then its contents sent.
VirtualOpens(n) ==
    /\ text[n] = Closed /\ calls < MaxCalls
    /\ calls' = calls + 1
    /\ text' = [text EXCEPT ![n] = 0]
    /\ asked' = asked \cup {Request(calls + 1, n, "create", 0)}
    /\ UNCHANGED <<source, known, responses, told, renavigated, crossed, behind>>

VirtualChanges(n) ==
    /\ text[n] < MaxVersions /\ calls < MaxCalls
    /\ calls' = calls + 1
    /\ text' = [text EXCEPT ![n] = @ + 1]
    /\ asked' = asked \cup {Request(calls + 1, n, "update", text[n] + 1)}
    /\ UNCHANGED <<source, known, responses, told, renavigated, crossed, behind>>

VirtualCloses(n) ==
    /\ text[n] # Closed /\ calls < MaxCalls
    /\ calls' = calls + 1
    /\ text' = [text EXCEPT ![n] = Closed]
    /\ asked' = asked \cup {Request(calls + 1, n, "delete", Closed)}
    /\ crossed' = IF \E r \in Asks(n) : r.step = "create" THEN crossed \cup {n} ELSE crossed
    /\ UNCHANGED <<source, known, responses, told, renavigated, behind>>

\* An update of a buffer goes before the changes of files that wait (prioritization.ts),
\* and else the calls are taken in the order they were made.
InOrder(r) ==
    \A s \in asked : s.call < r.call => s.step # "update" /\ r.step = "update"

\* Mutant: opening a document only creates it.
VirtualAnsweredOnce(r) ==
    /\ InOrder(r)
    /\ source' = [source EXCEPT ![r.name] = IF r.step = "create" THEN 0 ELSE r.version]
    /\ asked' = asked \ {r}
    /\ UNCHANGED <<text, calls, known, responses, told, renavigated, crossed, behind>>

\* The step after a creation is the change "to get content refreshed", with the text of
\* then, which a closed document still has.
VirtualAnswered(r) ==
    /\ InOrder(r)
    /\ source' = [source EXCEPT ![r.name] = IF r.step = "create" THEN 0 ELSE r.version]
    /\ IF r.step = "create"
       THEN /\ calls' = calls + 1
            /\ asked' = (asked \ {r}) \cup
                   {Request(calls + 1, r.name, "update",
                            IF text[r.name] = Closed THEN 0 ELSE text[r.name])}
       ELSE /\ asked' = asked \ {r} /\ UNCHANGED calls
    /\ UNCHANGED <<text, known, responses, told, renavigated, crossed, behind>>

\* logSynchronizationFailure: the rest of the call is left out.
VirtualFails(r) ==
    /\ InOrder(r)
    /\ asked' = asked \ {r} /\ behind' = behind \cup {r.name}
    /\ UNCHANGED <<text, source, calls, known, responses, told, renavigated, crossed>>

Virtual ==
    \/ \E n \in Names : VirtualOpens(n) \/ VirtualChanges(n) \/ VirtualCloses(n)
    \/ \E r \in asked : VirtualAnswered(r) \/ VirtualFails(r)

-----------------------------------------------------------------------------
(* Source generated documents.                                               *)

\* addSourceGeneratedFileWithoutInitialContent, for an info that is a new object of each
\* answer; the editor opens the document unless it is open.
GeneratedDefinition(n) ==
    /\ calls < MaxCalls
    /\ calls' = calls + 1
    /\ known' = [known EXCEPT ![n] = calls + 1]
    /\ IF text[n] = Closed /\ Asks(n) = {}
       THEN asked' = asked \cup {Request(calls + 1, n, "content", 0)} /\ UNCHANGED renavigated
       ELSE renavigated' = renavigated \cup {n} /\ UNCHANGED asked
    /\ UNCHANGED <<text, source, responses, told, crossed, behind>>

\* provideTextDocumentContent, past its await.
ContentAnswered(r) ==
    /\ r.step = "content"
    /\ responses' = [responses EXCEPT ![r.call] = source[r.name]]
    /\ told' = [told EXCEPT ![r.call] = source[r.name]]
    /\ text' = [text EXCEPT ![r.name] = source[r.name]]
    /\ asked' = asked \ {r}
    /\ renavigated' = IF known[r.name] = r.call THEN renavigated ELSE renavigated \cup {r.name}
    /\ UNCHANGED <<source, calls, known, crossed, behind>>

\* onTextDocumentClosed.
GeneratedCloses(n) ==
    /\ text[n] # Closed
    /\ text' = [text EXCEPT ![n] = Closed]
    /\ responses' = IF known[n] = 0 THEN responses ELSE [responses EXCEPT ![known[n]] = Closed]
    /\ known' = [known EXCEPT ![n] = 0]
    /\ behind' = behind \ {n}
    /\ UNCHANGED <<source, calls, asked, told, renavigated, crossed>>

\* The output changes, or goes; no event tells.
Regenerated(n) ==
    /\ source[n] < MaxVersions
    /\ source' = [source EXCEPT ![n] = IF @ = MaxVersions - 1 THEN Deleted ELSE @ + 1]
    /\ behind' = behind \cup {n}
    /\ UNCHANGED <<text, calls, known, responses, asked, told, renavigated, crossed>>

\* onVisibleTextEditorsChanged, at one of the editors: nothing is asked without content.
EditorsChange(n) ==
    /\ text[n] # Closed /\ known[n] # 0
    /\ ~\E r \in asked : r.step = "update" /\ r.call = known[n]
    /\ asked' = IF responses[known[n]] = Closed THEN asked
                ELSE asked \cup {Request(known[n], n, "update", 0)}
    /\ behind' = behind \ {n}
    /\ UNCHANGED <<text, source, calls, known, responses, told, renavigated, crossed>>

\* The event of a change has the editor ask for the content again.
UpdateAnswered(r) ==
    /\ r.step = "update"
    /\ asked' = asked \ {r}
    /\ told' = [told EXCEPT ![r.call] = source[r.name]]
    /\ responses' = IF responses[r.call] = Closed THEN responses
                    ELSE [responses EXCEPT ![r.call] = source[r.name]]
    /\ text' = IF told[r.call] = source[r.name] \/ text[r.name] = Closed \/ known[r.name] # r.call
               THEN text
               ELSE [text EXCEPT ![r.name] = source[r.name]]
    /\ UNCHANGED <<source, calls, known, renavigated, crossed, behind>>

\* The editor goes on to its next document.
GeneratedFails(r) ==
    /\ asked' = asked \ {r} /\ behind' = behind \cup {r.name}
    /\ UNCHANGED <<text, source, calls, known, responses, told, renavigated, crossed>>

Generated ==
    \/ \E n \in Names : GeneratedDefinition(n) \/ GeneratedCloses(n) \/ Regenerated(n) \/ EditorsChange(n)
    \/ \E r \in asked : ContentAnswered(r) \/ UpdateAnswered(r) \/ GeneratedFails(r)

-----------------------------------------------------------------------------
(* Metadata as source.                                                       *)

\* A name is known while its text is kept: then the location is known at once.
MetadataDefinition(n) ==
    /\ calls < MaxCalls
    /\ calls' = calls + 1
    /\ asked' = asked \cup {Request(calls + 1, n, IF known[n] = 0 THEN "metadata" ELSE "open", 0)}
    /\ UNCHANGED <<text, source, known, responses, told, renavigated, crossed, behind>>

MetadataAnswered(r) ==
    /\ r.step = "metadata"
    /\ known' = [known EXCEPT ![r.name] = r.call]
    /\ asked' = (asked \ {r}) \cup {[r EXCEPT !.step = "open"]}
    /\ UNCHANGED <<text, source, calls, responses, told, renavigated, crossed, behind>>

\* The editor opens the location and is given what is kept, or shows it in a peek and keeps
\* no document.
LocationOpens(r) ==
    /\ r.step = "open"
    /\ text' \in {text, [text EXCEPT ![r.name] = IF known[r.name] = 0 THEN Deleted ELSE 0]}
    /\ asked' = asked \ {r}
    /\ UNCHANGED <<source, calls, known, responses, told, renavigated, crossed, behind>>

MetadataCloses(n) ==
    /\ text[n] # Closed
    /\ text' = [text EXCEPT ![n] = Closed]
    /\ known' = [known EXCEPT ![n] = 0]
    /\ crossed' = IF Asks(n) = {} THEN crossed ELSE crossed \cup {n}
    /\ UNCHANGED <<source, calls, responses, asked, told, renavigated, behind>>

\* No source, or an error: no location.
MetadataFails(r) ==
    /\ r.step = "metadata"
    /\ asked' = asked \ {r}
    /\ UNCHANGED <<text, source, calls, known, responses, told, renavigated, crossed, behind>>

Metadata ==
    \/ \E n \in Names : MetadataDefinition(n) \/ MetadataCloses(n)
    \/ \E r \in asked : MetadataAnswered(r) \/ LocationOpens(r) \/ MetadataFails(r)

-----------------------------------------------------------------------------
Init ==
    /\ documentKind \in {"virtual", "generated", "metadata"}
    /\ text = [n \in Names |-> Closed]
    /\ source = [n \in Names |-> IF documentKind = "virtual" THEN Closed ELSE 0]
    /\ calls = 0 /\ known = [n \in Names |-> 0]
    /\ responses = [i \in Infos |-> Closed] /\ told = responses
    /\ asked = {} /\ renavigated = {} /\ crossed = {} /\ behind = {}

Next ==
    /\ UNCHANGED documentKind
    /\ \/ documentKind = "virtual" /\ Virtual
       \/ documentKind = "generated" /\ Generated
       \/ documentKind = "metadata" /\ Metadata

Spec == Init /\ [][Next]_documentVars

-----------------------------------------------------------------------------
TypeOK ==
    /\ text \in [Names -> 0 .. Deleted] /\ source \in [Names -> 0 .. Deleted]
    /\ known \in [Names -> 0 .. MaxCalls] /\ responses \in [Infos -> 0 .. Deleted]
    /\ \A r \in asked : r.name \in Names

\* With no call under way the server holds of a virtual document what the editor shows,
\* and nothing of a closed one, but where a call failed or the document closed while it
\* was created: then its contents are sent after its deletion
\* (virtualDocumentTracker.ts:87-104, 114-127).
VirtualInStep ==
    documentKind = "virtual" /\ asked = {} =>
        \A n \in Names \ (behind \cup crossed) : source[n] = text[n]

\* A generated document shows the output of when its editor was last looked at, but where
\* it was gone to again while open: from then on it has no content to update
\* (sourceGeneratedDocumentProvider.ts:56-87, 102-118).
GeneratedInStep ==
    documentKind = "generated" /\ asked = {} =>
        \A n \in Names \ (behind \cup renavigated) :
            text[n] # Closed => text[n] = source[n]

\* No text is kept of a document that closed, with the same exception (:46-54).
NothingKept ==
    documentKind = "generated" /\ asked = {} /\ renavigated = {} =>
        Cardinality({i \in Infos : responses[i] # Closed}) <= Cardinality({n \in Names : text[n] # Closed})

\* Metadata that opens has its text, unless its document closed since it was asked for
\* (definitionProvider.ts:84-95, definitionMetadataDocumentProvider.ts:22-24).
MetadataHasText ==
    documentKind = "metadata" => \A n \in Names \ crossed : text[n] # Deleted

DocumentsFit == TypeOK /\ VirtualInStep /\ GeneratedInStep /\ NothingKept /\ MetadataHasText
=============================================================================
