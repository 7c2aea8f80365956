----------------------------- MODULE HtmlDocuments -----------------------------
(***************************************************************************)
(* The virtual Html document of one Razor file: HtmlDocumentManager        *)
(* (lsptoolshost/razor/htmlDocumentManager.ts), its HtmlDocument objects   *)
(* and content provider, called by the razor/updateHtml handler and the    *)
(* Html requests of lsptoolshost/razor/razorEndpoints.ts.                  *)
(*                                                                         *)
(* The manager writes the text, fires a change event, and VS Code shows it *)
(* some time later; a request for the Html of a given checksum is to wait  *)
(* for that.  The text of update k, and its checksum, is the number k; 0   *)
(* is the empty text.  VS Code's side (external) loads a document by       *)
(* asking the provider for its text, ignores a change event of a document  *)
(* that is not open or whose text is the same, and applies the others in   *)
(* order.                                                                  *)
(***************************************************************************)
EXTENDS Naturals, Sequences, FiniteSets

CONSTANTS
    MaxUpdates,     \* bound: updates the language server sends
    Getters         \* the Html requests that may be in flight

ASSUME UpdateAssumption == MaxUpdates \in Nat

NoDocument == 0
Closed == MaxUpdates + 1        \* vs: VS Code does not hold the document
Updates == 1 .. MaxUpdates
Texts == 0 .. MaxUpdates

VARIABLES
    current,    \* the HtmlDocument in htmlDocuments, or NoDocument
    docs,       \* checksum and content of every HtmlDocument created
    pending,    \* the update pendingUpdates has an entry of, or 0
    sent,       \* updates begun
    target,     \* the HtmlDocument the update in progress works on, or 0
    vs,         \* the text VS Code shows
    loading,    \* the text VS Code got from the provider for a load, or Closed
    wire,       \* changes VS Code has accepted and not applied
    pc,         \* what each getDocument call awaits, or how it ended
    want,       \* the checksum each call asked for
    awaits,     \* the update whose promise each call awaits
    seen,       \* the updates whose text VS Code has shown
    gaveUp,     \* the updates some call stopped waiting for
    paced       \* whether updates come no faster than VS Code shows them

docVars == <<current, docs, pending>>
updateVars == <<sent, target>>
vsVars == <<vs, loading, wire>>
getVars == <<pc, want, awaits>>
ghostVars == <<seen, gaveUp, paced>>
vars == <<docVars, updateVars, vsVars, getVars, ghostVars>>

Init ==
    /\ current = NoDocument
    /\ docs = <<>>
    /\ pending = 0
    /\ sent = 0
    /\ target = NoDocument
    /\ vs = Closed
    /\ loading = Closed
    /\ wire = <<>>
    /\ pc = [g \in Getters |-> "idle"]
    /\ want = [g \in Getters |-> 0]
    /\ awaits = [g \in Getters |-> 0]
    /\ seen = {}
    /\ gaveUp = {}
    /\ paced \in BOOLEAN

-----------------------------------------------------------------------------
(* VS Code *)

\* provideTextDocumentContent: the text of the document now in the manager,
\* empty when it was removed.
Provided == IF current = NoDocument THEN 0 ELSE docs[current].content

\* openTextDocument of a document VS Code does not hold makes it load it; the
\* opener continues once vs is not Closed.
RequestOpen ==
    loading' = IF vs = Closed /\ loading = Closed THEN Provided ELSE loading

LoadDone ==
    /\ loading # Closed
    /\ vs' = loading
    /\ loading' = Closed
    /\ seen' = seen \cup ({loading} \cap Updates)
    /\ UNCHANGED <<docVars, updateVars, wire, getVars, gaveUp, paced>>

\* The calls that wait for update u end with outcome o.
Release(u, o) ==
    [g \in Getters |-> IF pc[g] = "waiting" /\ awaits[g] = u THEN o ELSE pc[g]]

\* onDidChangeTextDocument: the pending update of the path, whichever it is, is
\* resolved and forgotten.
OnDidChange ==
    /\ pc' = Release(pending, "returned")
    /\ pending' = 0

\* VS Code applies the next change and reports it.
ApplyChange ==
    /\ wire # <<>>
    /\ wire' = Tail(wire)
    /\ IF vs = Closed
       THEN UNCHANGED <<vs, pc, pending, seen>>
       ELSE /\ vs' = Head(wire)
            /\ seen' = seen \cup ({Head(wire)} \cap Updates)
            /\ OnDidChange
    /\ UNCHANGED <<current, docs, updateVars, loading, want, awaits, gaveUp, paced>>

\* VS Code closes a virtual document nobody has opened lately.
VirtualDocumentTimesOut ==
    /\ vs # Closed
    /\ target = NoDocument
    /\ \A g \in Getters : pc[g] # "opening"
    /\ vs' = Closed
    /\ UNCHANGED <<docVars, updateVars, loading, wire, getVars, ghostVars>>

-----------------------------------------------------------------------------
(* HtmlDocumentManager *)

\* addDocument, of the update k.
AddDocument(k) ==
    /\ docs' = Append(docs, [checksum |-> k, content |-> 0])
    /\ current' = Len(docs')

\* razor/updateHtml up to the await of openTextDocument: the document is added
\* with the new checksum and no content if there is none, and the promise of
\* the update takes the place of an older one.
UpdateDocumentText ==
    /\ target = NoDocument
    /\ sent < MaxUpdates
    /\ paced => wire = <<>>
    /\ sent' = sent + 1
    /\ IF current = NoDocument
       THEN AddDocument(sent')
       ELSE UNCHANGED <<docs, current>>
    /\ target' = current'
    /\ pending' = sent'
    /\ loading' = IF vs = Closed /\ loading = Closed
                  THEN (IF current = NoDocument THEN 0 ELSE Provided) ELSE loading
    /\ UNCHANGED <<vs, wire, getVars, ghostVars>>

\* fireDidChange of a document VS Code holds, when its text differs from t.
FireDidChange(t) ==
    wire' = IF vs # Closed /\ t # vs THEN Append(wire, t) ELSE wire

\* setContent of document d, for update k.
SetContent(d, k) == docs' = [docs EXCEPT ![d] = [checksum |-> k, content |-> k]]

\* The rest of the update: content, checksum and change event.  The document
\* may have been removed meanwhile; the provider then has no text for it.
\* Mutant: the change is fired before the content is set.
FinishUpdateFiresFirst ==
    /\ target # NoDocument
    /\ vs # Closed
    /\ FireDidChange(Provided)
    /\ SetContent(target, sent)
    /\ target' = NoDocument
    /\ UNCHANGED <<current, pending, sent, vs, loading, getVars, ghostVars>>

FinishUpdate ==
    /\ target # NoDocument
    /\ vs # Closed
    /\ SetContent(target, sent)
    /\ UNCHANGED <<current, pending, sent, vs, loading, getVars, ghostVars>>
    /\ FireDidChange(Provided')
    /\ target' = NoDocument

\* The Razor document is closed: a pending update is rejected, which lets its
\* waiters go on, and the Html document is removed.
CloseDocument ==
    /\ current # NoDocument
    /\ pc' = Release(pending, "returned")
    /\ pending' = 0
    /\ current' = NoDocument
    /\ gaveUp' = gaveUp \cup {want[g] : g \in {h \in Getters : pc[h] \in {"opening", "waiting"}}}
    /\ UNCHANGED <<docs, updateVars, vsVars, want, awaits, seen, paced>>

\* getDocument with the checksum k of an update the server has had answered:
\* nothing without the document or when the checksum has moved on, otherwise
\* openTextDocument is awaited.
GetDocument(g, k) ==
    /\ pc[g] = "idle"
    /\ k \in 1 .. (IF target = NoDocument THEN sent ELSE sent - 1)
    /\ want' = [want EXCEPT ![g] = k]
    /\ IF current # NoDocument /\ docs[current].checksum = k
       THEN /\ pc' = [pc EXCEPT ![g] = "opening"]
            /\ RequestOpen
       ELSE /\ pc' = [pc EXCEPT ![g] = "undefined"]
            /\ UNCHANGED loading
    /\ UNCHANGED <<docVars, updateVars, vs, wire, awaits, ghostVars>>

\* After the await: wait for the pending update if there is one.
\* Mutant: it is not waited for.
GetOpenedNoWait(g) ==
    /\ pc[g] = "opening"
    /\ vs # Closed
    /\ pc' = [pc EXCEPT ![g] = "returned"]
    /\ UNCHANGED <<docVars, updateVars, vsVars, want, awaits, ghostVars>>

GetOpened(g) ==
    /\ pc[g] = "opening"
    /\ vs # Closed
    /\ IF pending # 0
       THEN /\ pc' = [pc EXCEPT ![g] = "waiting"]
            /\ awaits' = [awaits EXCEPT ![g] = pending]
       ELSE /\ pc' = [pc EXCEPT ![g] = "returned"]
            /\ UNCHANGED awaits
    /\ UNCHANGED <<docVars, updateVars, vsVars, want, ghostVars>>

\* Five seconds later: the call goes on without the update, and the finally
\* forgets the pending update of the path, be it the awaited one or a newer.
\* Mutant: the timer only ends the wait for the update that is still pending.
GetTimesOutIfPending(g) ==
    /\ pc[g] = "waiting"
    /\ pending = awaits[g]
    /\ pc' = [pc EXCEPT ![g] = "timedOut"]
    /\ gaveUp' = gaveUp \cup {awaits[g]}
    /\ pending' = 0
    /\ UNCHANGED <<current, docs, updateVars, vsVars, want, awaits, seen, paced>>

GetTimesOut(g) ==
    /\ pc[g] = "waiting"
    /\ pc' = [pc EXCEPT ![g] = "timedOut"]
    /\ gaveUp' = gaveUp \cup {awaits[g], pending}
    /\ pending' = 0
    /\ UNCHANGED <<current, docs, updateVars, vsVars, want, awaits, seen, paced>>

Next ==
    \/ LoadDone \/ ApplyChange \/ VirtualDocumentTimesOut
    \/ UpdateDocumentText \/ FinishUpdate \/ CloseDocument
    \/ \E g \in Getters :
          \/ \E k \in Updates : GetDocument(g, k)
          \/ GetOpened(g)
          \/ GetTimesOut(g)

\* VS Code loads documents and applies changes, continuations run, timers fire.
Fairness ==
    /\ WF_vars(LoadDone) /\ WF_vars(ApplyChange) /\ WF_vars(FinishUpdate)
    /\ \A g \in Getters : WF_vars(GetOpened(g)) /\ WF_vars(GetTimesOut(g))

Spec == Init /\ [][Next]_vars /\ Fairness

-----------------------------------------------------------------------------
(***************************************************************************)
(* Properties                                                              *)
(***************************************************************************)

\* The type of every variable.  An update in progress and the manager point to
\* documents that exist, and only an update that was sent is pending.
TypeOK ==
    /\ docs \in Seq([checksum : Updates, content : Texts])
    /\ current \in 0 .. Len(docs) /\ target \in 0 .. Len(docs)
    /\ pending \in 0 .. sent
    /\ sent \in 0 .. MaxUpdates
    /\ vs \in Texts \cup {Closed} /\ loading \in Texts \cup {Closed}
    /\ wire \in Seq(Texts)
    /\ pc \in [Getters -> {"idle", "opening", "waiting", "returned", "timedOut", "undefined"}]
    /\ want \in [Getters -> Texts] /\ awaits \in [Getters -> Texts]
    /\ seen \subseteq Updates /\ gaveUp \subseteq Texts /\ paced \in BOOLEAN

\* "Before we actually make a call to the Html server, we should at least make
\* sure that the document update has been seen by VS Code"
\* (htmlDocumentManager.ts:160-162): a call that got its document without
\* a timeout, its own or that of a call before it, and without a close, finds
\* that VS Code has shown the text it asked for.
SeenBeforeEveryCall ==
    \A g \in Getters :
        pc[g] = "returned" => want[g] \in seen \cup gaveUp

\* It does as long as no update is sent before VS Code shows the one before
\* (htmlDocumentManager.ts:45-58, 154-183).
SeenBeforeCall == paced => SeenBeforeEveryCall

\* When no update is in progress and no change is on its way, what VS Code shows
\* is what the manager holds: no order of loads, updates and closes leaves an
\* old text on display.  Every variable has its type.
Converges ==
    /\ TypeOK
    /\ target = NoDocument /\ wire = <<>> /\ current # NoDocument /\ vs # Closed =>
           vs = docs[current].content

\* A call ends, with or without its document, whatever happens to the update it
\* waits for: shown, replaced by a newer one, or given up by a close.
EveryGetEnds ==
    \A g \in Getters :
        pc[g] \in {"opening", "waiting"} ~> pc[g] \in {"returned", "timedOut"}
=============================================================================
