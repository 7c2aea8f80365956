----------------------------- MODULE ServerEdits -----------------------------
(***************************************************************************)
(* Edits that the Roslyn server gives outside of a provider's answer and   *)
(* that VS Code applies: what is inserted after a typed character          *)
(* (lsptoolshost/autoInsert), the complex edit of a committed completion   *)
(* (completionComplexEdit in server/serverCommands.ts) and the edits of    *)
(* nested and fix-all code actions (lsptoolshost/diagnostics).             *)
(*                                                                         *)
(* A text is the number of its changes.  VS Code applies an edit that the  *)
(* extension asks for only to the text the extension knows, and tells of   *)
(* every change in order.                                                  *)
(***************************************************************************)
EXTENDS Naturals, Sequences, FiniteSets

CONSTANTS
    TextDocs,       \* documents that are open
    Texts,          \* what the user types
    MaxTyped        \* bound, in Nat: changes by the user

VARIABLES
    editor,         \* the changes of a document
    known,          \* those the server has been sent, and the extension knows
    changes,        \* changes still to be sent, in order
    awaiting,       \* sent changes whose handler awaits openTextDocument
    registered,     \* the server has registered _vs_onAutoInsert
    inserts,        \* requests for what to insert that are not settled
    asked,          \* how many were made; the last has the source's token
    command,        \* the commit of a completion item, or a code action
    applying,       \* edits VS Code has been asked to apply
    applied,        \* how often an edit of the command was applied
    typed

editVars == <<editor, known, changes, awaiting, registered, inserts, asked, command, applying,
              applied, typed>>

Idle == [kind |-> "none", step |-> "idle", doc |-> CHOOSE d \in TextDocs : TRUE, tries |-> 0]

-----------------------------------------------------------------------------
(* The document.                                                             *)

Change(d, text) == [doc |-> d, text |-> text, version |-> editor[d] + 1]
Changed(d, text) ==
    /\ editor' = [editor EXCEPT ![d] = @ + 1]
    /\ changes' = Append(changes, Change(d, text))

Types(d, text) ==
    /\ typed < MaxTyped
    /\ typed' = typed + 1
    /\ Changed(d, text)
    /\ UNCHANGED <<known, awaiting, registered, inserts, asked, command, applying, applied>>

-----------------------------------------------------------------------------
(* registerOnAutoInsert.                                                     *)

\* White space goes, and what has lines only is one new line.
TriggerOf(text) == IF text = "indentedLines" THEN "newline" ELSE text
Triggers == {"newline", "brace"}

\* Several changes at a time, and changes of a range that has a text, are left alone.
DidChangeSent ==
    /\ changes # <<>>
    /\ LET c == Head(changes) IN
       /\ known' = [known EXCEPT ![c.doc] = c.version]
       /\ awaiting' = IF c.text = "replaced" THEN awaiting ELSE Append(awaiting, c)
    /\ changes' = Tail(changes)
    /\ UNCHANGED <<editor, registered, inserts, asked, command, applying, applied, typed>>

Insert(n, c) ==
    [n |-> n, doc |-> c.doc, version |-> c.version, cancelled |-> FALSE, answer |-> "none"]

\* Mutant: a request is made without an end of the one before.
OpenedKeeps ==
    /\ awaiting # <<>> /\ awaiting' = Tail(awaiting)
    /\ IF registered /\ TriggerOf(Head(awaiting).text) \in Triggers
       THEN /\ asked' = asked + 1
            /\ inserts' = inserts \cup {Insert(asked', Head(awaiting))}
       ELSE UNCHANGED <<asked, inserts>>
    /\ UNCHANGED <<editor, known, changes, registered, command, applying, applied, typed>>

\* openTextDocument returns: a trigger of the server cancels the request before it, of
\* whichever document, and makes another.
Opened ==
    /\ awaiting # <<>> /\ awaiting' = Tail(awaiting)
    /\ IF registered /\ TriggerOf(Head(awaiting).text) \in Triggers
       THEN /\ asked' = asked + 1
            /\ inserts' = {[r EXCEPT !.cancelled = TRUE] : r \in inserts}
                          \cup {Insert(asked', Head(awaiting))}
       ELSE UNCHANGED <<asked, inserts>>
    /\ UNCHANGED <<editor, known, changes, registered, command, applying, applied, typed>>

\* The server answers, with an edit or without; a cancelled request may be rejected.
Answers(r, answer) ==
    /\ r \in inserts /\ r.answer = "none"
    /\ answer = "rejected" => r.cancelled
    /\ inserts' = (inserts \ {r}) \cup {[r EXCEPT !.answer = answer]}
    /\ UNCHANGED <<editor, known, changes, awaiting, registered, asked, command, applying, applied,
                   typed>>

Edit(by, d) == [by |-> by, doc |-> d, on |-> known[d]]

\* applyAutoInsertEdit: the promise of applyEdit is taken for its result.
Inserted(r) ==
    /\ r \in inserts /\ r.answer # "none"
    /\ inserts' = inserts \ {r}
    /\ applying' = IF r.answer = "edit" THEN applying \cup {Edit(r.n, r.doc)} ELSE applying
    /\ UNCHANGED <<editor, known, changes, awaiting, registered, asked, command, applied, typed>>

\* OnAutoInsertFeature: register, unregister and clear.
Registration ==
    /\ registered' = ~registered
    /\ typed < MaxTyped
    /\ UNCHANGED <<editor, known, changes, awaiting, inserts, asked, command, applying, applied,
                   typed>>

-----------------------------------------------------------------------------
(* The commands.                                                             *)

\* One command at a time.
Begins(kind, d) ==
    /\ command.kind = "none"
    /\ command' = [kind |-> kind, doc |-> d, tries |-> 0,
                   step |-> CASE kind = "completion" -> "opening"
                              [] kind = "nested" -> "picking"
                              [] kind = "fixAll" -> "scope"]
    /\ UNCHANGED <<editor, known, changes, awaiting, registered, inserts, asked, applying, applied,
                   typed>>

From(step, kind, next) ==
    /\ command.step = step
    /\ command' = [command EXCEPT !.kind = kind, !.step = next]
    /\ UNCHANGED <<editor, known, changes, awaiting, registered, inserts, asked, applying, applied,
                   typed>>
At(step, next) == From(step, command.kind, next)

\* completionComplexEdit: openTextDocument and showTextDocument; without either it throws.
Shown == At("opening", "trying")
Unshown == At("opening", "failed")

\* registerNestedResolveCodeAction: what is picked has an action to resolve, one to fix
\* all with, or none.
Picked ==
    \/ At("picking", "resolving")
    \/ From("picking", "fixAll", "scope")
    \/ At("picking", "nothing")
\* getFixAllResponse.
ScopePicked == At("scope", "resolving")
Dismissed == At("picking", "dismissed") \/ At("scope", "dismissed")
ResolveCancelled == At("resolving", "cancelled")
\* An answer without an edit is an error of a nested action, and of a fix-all none.
ResolvedEmpty == At("resolving", IF command.kind = "fixAll" THEN "nothing" ELSE "failed")
Resolved == At("resolving", "trying")

\* One attempt; completionComplexEdit has three.
Tries ==
    /\ command.step = "trying"
    /\ command' = [command EXCEPT !.step = "applying", !.tries = @ + 1]
    /\ applying' = applying \cup {Edit(0, command.doc)}
    /\ UNCHANGED <<editor, known, changes, awaiting, registered, inserts, asked, applied, typed>>

MaxTries == IF command.kind = "completion" THEN 3 ELSE 1

\* Mutant: the loop goes on after a success.
NextStepLoops(success) ==
    CASE command.tries < MaxTries -> "trying"
      [] command.tries = MaxTries /\ success -> "done"
      [] OTHER -> "failed"

NextStep(success) ==
    CASE success -> "done"
      [] ~success /\ command.tries < MaxTries -> "trying"
      [] OTHER -> "failed"

\* applyEdit and insertSnippet: an edit of a text the user has changed meanwhile fails, and
\* any may.
Applies(e, success) ==
    /\ e \in applying
    /\ success => editor[e.doc] = e.on
    /\ applying' = applying \ {e}
    /\ IF success THEN Changed(e.doc, "replaced") ELSE UNCHANGED <<editor, changes>>
    /\ IF e.by = 0
       THEN /\ command' = [command EXCEPT !.step = NextStep(success)]
            /\ applied' = IF success THEN applied + 1 ELSE applied
       ELSE UNCHANGED <<command, applied>>
    /\ UNCHANGED <<known, awaiting, registered, inserts, asked, typed>>

-----------------------------------------------------------------------------
Init ==
    /\ editor = [d \in TextDocs |-> 0] /\ known = editor
    /\ changes = <<>> /\ awaiting = <<>> /\ registered = TRUE
    /\ inserts = {} /\ asked = 0
    /\ command = Idle /\ applying = {} /\ applied = 0 /\ typed = 0

Commands ==
    \/ \E kind \in {"completion", "nested", "fixAll"}, d \in TextDocs : Begins(kind, d)
    \/ Shown \/ Unshown
    \/ Picked \/ ScopePicked \/ Dismissed \/ ResolveCancelled \/ ResolvedEmpty \/ Resolved
    \/ Tries

Next ==
    \/ \E d \in TextDocs, text \in Texts : Types(d, text)
    \/ DidChangeSent \/ Opened \/ Registration
    \/ \E r \in inserts, answer \in {"edit", "nothing", "rejected"} : Answers(r, answer)
    \/ \E r \in inserts : Inserted(r)
    \/ Commands
    \/ \E e \in applying, success \in BOOLEAN : Applies(e, success)

Spec == Init /\ [][Next]_editVars

-----------------------------------------------------------------------------
\* Of all requests for what to insert one has a token that is not cancelled, and it is the
\* one made last (onAutoInsert.ts:82-93).
OneInsert == \A r \in inserts : ~r.cancelled => r.n = asked

\* A command that ends well has applied its edit, and has applied it once; one that fails
\* has applied none (serverCommands.ts:118-146, nestedCodeAction.ts:71-86).
AppliedOnce ==
    /\ command.step = "done" => applied = 1
    /\ command.step # "done" => applied = 0

\* The server is asked what to insert after a change it has been sent
\* (onAutoInsert.ts:15-18).
AskedAfterChange == \A r \in inserts : r.version <= known[r.doc]

EditsFit == OneInsert /\ AppliedOnce /\ AskedAfterChange
=============================================================================
