-------------------------- MODULE HtmlDocumentsProofs --------------------------
(***************************************************************************)
(* Proofs about HtmlDocuments: VS Code ends up showing what the manager    *)
(* holds, and a call that got its document is told of a text that was      *)
(* shown, for any number of updates and calls.                             *)
(*                                                                         *)
(* Neither property is inductive.  The first takes that between updates    *)
(* the last text on its way, being loaded or on display is that of the     *)
(* last update.  The second takes, for a call that is opening the document *)
(* or awaiting a promise, that its text was shown or given up, is on its   *)
(* way with its promise still pending, or is what VS Code is loading, and  *)
(* that a promise that was replaced is never resolved.                     *)
(***************************************************************************)
EXTENDS HtmlDocuments, TLAPS

\* The last update that setContent was called for.
Finished == IF target = NoDocument THEN sent ELSE sent - 1

\* What a text of each place can be.
Texted ==
    /\ target # NoDocument => sent > 0
    /\ \A d \in 1 .. Len(docs) :
          /\ docs[d].content <= Finished
          /\ \/ docs[d].content = docs[d].checksum
             \/ d = target /\ docs[d].content = 0 /\ docs[d].checksum = sent
    /\ vs # Closed => vs <= Finished
    /\ loading # Closed => loading <= Finished /\ vs = Closed
    /\ \A i \in 1 .. Len(wire) : wire[i] <= Finished

\* The promises and the calls that await them.
Awaited ==
    /\ target # NoDocument => pending \in {0, sent} /\ current \in {NoDocument, target}
    /\ \A g \in Getters :
          /\ pc[g] \in {"opening", "waiting"} => want[g] \in 1 .. Finished
          /\ pc[g] = "waiting" => awaits[g] \in 1 .. sent

\* A load in progress gives the text of the manager, once it has one.
Loads ==
    current # NoDocument /\ loading # Closed /\ docs[current].content # 0 =>
        loading = docs[current].content

\* Between updates the text of the manager is that of the last one, and so is the
\* last that VS Code will show.
Latest ==
    target = NoDocument /\ current # NoDocument =>
        /\ docs[current].content = sent
        /\ wire # <<>> => wire[Len(wire)] = sent
        /\ wire = <<>> /\ vs # Closed => vs = sent
        /\ loading # Closed => loading = sent

\* The change of the update k is on its way, and its promise pending.
OnItsWay(k) == wire = <<k>> /\ pending = k

Told == seen \cup gaveUp

\* What paced updates add.
Shown ==
    /\ target # NoDocument =>
          wire = <<>> /\ (current = target => pending = sent \/ sent \in gaveUp)
    /\ current # NoDocument /\ docs[current].content # 0 =>
          \/ docs[current].content \in Told
          \/ vs = Closed
          \/ OnItsWay(docs[current].content)
    /\ \A g \in Getters :
          /\ pc[g] = "opening" =>
                \/ want[g] \in Told
                \/ loading = want[g]
                \/ vs # Closed /\ OnItsWay(want[g])
          /\ pc[g] = "waiting" =>
                \/ want[g] \in Told
                \/ awaits[g] # pending
                \/ pending = want[g] /\ wire \in {<<>>, <<want[g]>>}
          /\ pc[g] = "returned" => want[g] \in Told

\* The inductive invariant.
IInv == TypeOK /\ Texted /\ Awaited /\ Loads /\ Latest /\ (paced => Shown)

-----------------------------------------------------------------------------
\* Texts are numbered from 0, updates from 1, and Closed is no text.
LEMMA Numbers ==
    /\ MaxUpdates \in Nat /\ Closed \notin Texts
    /\ NoDocument = 0
    /\ Updates = Texts \ {0} /\ Texts \subseteq Nat /\ 0 \in Texts
    /\ \A k \in Texts : k # 0 => k \in Updates
BY UpdateAssumption DEF Closed, Texts, Updates, NoDocument

\* What a sequence holds.
LEMMA Elements ==
    ASSUME NEW S, NEW s \in Seq(S)
    PROVE  Len(s) \in Nat /\ \A i \in 1 .. Len(s) : s[i] \in S
OBVIOUS

\* An HtmlDocument has the fields it is built from.
LEMMA DocumentFacts ==
    ASSUME NEW k \in Updates, NEW t \in Texts
    PROVE  /\ [checksum |-> k, content |-> t] \in [checksum : Updates, content : Texts]
           /\ [checksum |-> k, content |-> t].checksum = k
           /\ [checksum |-> k, content |-> t].content = t
OBVIOUS

\* The types of the parts of the state, at the places used.
LEMMA Facts ==
    ASSUME IInv
    PROVE  /\ TypeOK /\ sent \in Nat /\ sent <= MaxUpdates /\ Finished \in 0 .. sent
           /\ target # NoDocument => Finished = sent - 1
           /\ target = NoDocument => Finished = sent
           /\ Len(docs) \in Nat /\ Len(wire) \in Nat
           /\ \A d \in 1 .. Len(docs) : docs[d].content \in Texts /\ docs[d].checksum \in Updates
           /\ \A i \in 1 .. Len(wire) : wire[i] \in Texts
           /\ current # NoDocument => current \in 1 .. Len(docs)
           /\ target # NoDocument => target \in 1 .. Len(docs)
           /\ vs # Closed => vs \in Texts
           /\ loading # Closed => loading \in Texts
           /\ \A d \in 1 .. Len(docs) : docs[d] \in [checksum : Updates, content : Texts]
<1>1. TypeOK /\ MaxUpdates \in Nat
    BY Numbers DEF IInv
<1>2. sent \in Nat /\ sent <= MaxUpdates
    BY <1>1 DEF TypeOK
<1>3. /\ Finished \in 0 .. sent
      /\ target # NoDocument => Finished = sent - 1
      /\ target = NoDocument => Finished = sent
    BY <1>2 DEF IInv, Texted, Finished
<1>4. /\ Len(docs) \in Nat /\ Len(wire) \in Nat
      /\ \A d \in 1 .. Len(docs) : docs[d] \in [checksum : Updates, content : Texts]
      /\ \A i \in 1 .. Len(wire) : wire[i] \in Texts
  <2>1. docs \in Seq([checksum : Updates, content : Texts]) /\ wire \in Seq(Texts)
      BY <1>1 DEF TypeOK
  <2>2. Len(docs) \in Nat /\ Len(wire) \in Nat
      BY <2>1
  <2>3. \A d \in 1 .. Len(docs) : docs[d] \in [checksum : Updates, content : Texts]
      BY <2>1, Elements
  <2>4. \A i \in 1 .. Len(wire) : wire[i] \in Texts
      BY <2>1, Elements
  <2>. QED BY <2>2, <2>3, <2>4
<1>5. \A d \in 1 .. Len(docs) : docs[d].content \in Texts /\ docs[d].checksum \in Updates
    BY <1>4
<1>6. /\ current # NoDocument => current \in 1 .. Len(docs)
      /\ target # NoDocument => target \in 1 .. Len(docs)
    BY <1>1, <1>4, Numbers DEF TypeOK
<1>7. /\ vs # Closed => vs \in Texts
      /\ loading # Closed => loading \in Texts
    BY <1>1 DEF TypeOK
<1>. QED BY <1>1, <1>2, <1>3, <1>4, <1>5, <1>6, <1>7

\* Nothing is sent, shown or asked for at first.
LEMMA InitIInv == Init => IInv
<1> SUFFICES ASSUME Init PROVE IInv
    OBVIOUS
<1>1. TypeOK
  <2>1. /\ current \in 0 .. Len(docs) /\ target \in 0 .. Len(docs) /\ pending \in 0 .. sent
        /\ sent \in 0 .. MaxUpdates
      BY Numbers DEF Init
  <2>2. /\ want \in [Getters -> Texts] /\ awaits \in [Getters -> Texts]
        /\ pc \in [Getters -> {"idle", "opening", "waiting", "returned", "timedOut", "undefined"}]
      BY Numbers DEF Init
  <2>3. paced \in BOOLEAN
      BY DEF Init
  <2>. QED BY <2>1, <2>2, <2>3 DEF Init, TypeOK
<1>2. Texted /\ Awaited /\ Loads /\ Latest /\ Shown
    BY DEF Init, Texted, Awaited, Loads, Latest, Shown
<1>. QED BY <1>1, <1>2 DEF IInv

-----------------------------------------------------------------------------
\* VS Code shows what it got from the provider.
LEMMA LoadDoneKeeps ==
    ASSUME IInv, LoadDone
    PROVE  IInv'
<1>1. /\ loading # Closed /\ vs' = loading /\ loading' = Closed
      /\ seen' = seen \cup ({loading} \cap Updates)
      /\ UNCHANGED <<current, docs, pending, sent, target, wire, pc, want, awaits, gaveUp, paced>>
    BY DEF LoadDone, docVars, updateVars, getVars
<1>2. /\ TypeOK /\ loading \in Texts /\ Finished' = Finished /\ vs = Closed
    BY <1>1, Facts DEF IInv, Texted, Finished
<1>3. TypeOK'
    BY <1>1, <1>2, Numbers DEF TypeOK
<1>4. Texted' /\ Awaited' /\ Loads'
    BY <1>1, <1>2 DEF IInv, Texted, Awaited, Loads
<1>5. Latest'
    BY <1>1, <1>2, Numbers DEF IInv, Latest
<1>6. ASSUME paced PROVE Shown'
  <2>1. Shown
      BY <1>6 DEF IInv
  <2>2. Told \subseteq Told' /\ (loading # 0 => loading \in Told')
      BY <1>1, <1>2, Numbers DEF Told
  <2>3. current # NoDocument /\ docs[current].content # 0 => docs[current].content = loading
      BY <1>1 DEF IInv, Loads
  <2>4. \A g \in Getters : pc[g] = "opening" => want[g] # 0
      BY <1>2, Facts DEF IInv, Awaited
  <2>5. \A g \in Getters : pc[g] = "opening" => want[g] \in Told'
      BY <1>2, <2>1, <2>2, <2>4 DEF Shown
  <2>. QED BY <1>1, <2>1, <2>2, <2>3, <2>5 DEF Shown
<1>. QED BY <1>1, <1>3, <1>4, <1>5, <1>6 DEF IInv

\* VS Code applies a change, or drops that of a document it has closed.
LEMMA ApplyChangeKeeps ==
    ASSUME IInv, ApplyChange
    PROVE  IInv'
<1>1. /\ wire # <<>> /\ wire' = Tail(wire)
      /\ UNCHANGED <<current, docs, sent, target, loading, want, awaits, gaveUp, paced>>
    BY DEF ApplyChange, updateVars
<1>2. /\ TypeOK /\ Finished' = Finished /\ Len(wire) \in Nat /\ Len(wire) > 0
      /\ Head(wire) = wire[1] /\ wire[1] \in Texts /\ wire[1] <= Finished
      /\ wire' \in Seq(Texts) /\ Len(wire') = Len(wire) - 1
      /\ \A i \in 1 .. Len(wire') : wire'[i] = wire[i + 1]
      /\ wire' # <<>> => wire'[Len(wire')] = wire[Len(wire)]
      /\ wire' = <<>> => wire[1] = wire[Len(wire)]
  <2>1. TypeOK /\ Finished' = Finished /\ wire \in Seq(Texts)
      BY <1>1, Facts DEF Finished, TypeOK
  <2>2. Len(wire) \in Nat /\ Len(wire) > 0 /\ Head(wire) = wire[1] /\ wire[1] \in Texts
      BY <1>1, <2>1
  <2>3. /\ wire' \in Seq(Texts) /\ Len(wire') = Len(wire) - 1
        /\ \A i \in 1 .. Len(wire') : wire'[i] = wire[i + 1]
      BY <1>1, <2>1, <2>2
  <2>4. wire' # <<>> => Len(wire') > 0 /\ wire'[Len(wire')] = wire[Len(wire)]
      BY <2>2, <2>3
  <2>5. wire' = <<>> => wire[1] = wire[Len(wire)]
    <3>1. wire' = <<>> => Len(wire') = 0
        OBVIOUS
    <3>2. Len(wire') = Len(wire) - 1
        BY <2>3
    <3>3. wire' = <<>> => Len(wire) = 1
        BY <2>2, <3>1, <3>2
    <3>. QED BY <3>3
  <2>6. wire[1] <= Finished
      BY <2>2 DEF IInv, Texted
  <2>. QED BY <2>1, <2>2, <2>3, <2>4, <2>5, <2>6
<1>3. ASSUME paced, Shown PROVE target = NoDocument
    BY <1>1, <1>3 DEF Shown
<1>4. \A k : wire = <<k>> => wire[1] = k /\ wire' = <<>>
    BY <1>2
<1>5. CASE vs = Closed
  <2>1. UNCHANGED <<vs, pc, pending, seen>>
      BY <1>5 DEF ApplyChange
  <2>2. TypeOK'
      BY <1>1, <1>2, <2>1 DEF TypeOK
  <2>3. Texted'
      BY <1>1, <1>2, <2>1 DEF IInv, Texted
  <2>4. Awaited' /\ Loads'
      BY <1>1, <1>2, <2>1 DEF IInv, Awaited, Loads
  <2>5. Latest'
      BY <1>1, <1>2, <1>5, <2>1 DEF IInv, Latest
  <2>6. ASSUME paced PROVE Shown'
    <3>1. Shown
        BY <2>6 DEF IInv
    <3>. QED BY <1>1, <1>3, <1>4, <1>5, <2>1, <2>6, <3>1 DEF Shown, Told
  <2>. QED BY <1>1, <2>2, <2>3, <2>4, <2>5, <2>6 DEF IInv
<1>6. CASE vs # Closed
  <2>1. /\ vs' = wire[1] /\ seen' = seen \cup ({wire[1]} \cap Updates)
        /\ pc' = [g \in Getters |-> IF pc[g] = "waiting" /\ awaits[g] = pending THEN "returned" ELSE pc[g]]
        /\ pending' = 0
      BY <1>2, <1>6 DEF ApplyChange, OnDidChange, Release
  <2>2. TypeOK'
      BY <1>1, <1>2, <2>1, Facts DEF TypeOK
  <2>3. Texted'
      BY <1>1, <1>2, <1>6, <2>1 DEF IInv, Texted
  <2>4. Awaited' /\ Loads'
      BY <1>1, <1>2, <2>1 DEF IInv, Awaited, Loads
  <2>5. Latest'
      BY <1>1, <1>2, <1>6, <2>1 DEF IInv, Latest
  <2>6. ASSUME paced PROVE Shown'
    <3>1. Shown /\ target = NoDocument /\ loading = Closed
        BY <1>3, <1>6, <2>6 DEF IInv, Texted
    <3>2. Told \subseteq Told' /\ (wire[1] # 0 => wire[1] \in Told')
        BY <1>1, <1>2, <2>1, Numbers DEF Told
    <3>3. current' # NoDocument /\ docs'[current'].content # 0 =>
              docs'[current'].content \in Told' \/ vs' = Closed
        BY <1>1, <1>4, <1>6, <3>1, <3>2 DEF Shown, OnItsWay
    <3>4. ASSUME NEW g \in Getters
          PROVE  /\ pc'[g] = "opening" => want'[g] \in Told'
                 /\ pc'[g] = "waiting" => want'[g] \in Told' \/ awaits'[g] # pending'
                 /\ pc'[g] = "returned" => want'[g] \in Told'
      <4>1. /\ pc[g] \in {"opening", "waiting"} => want[g] # 0 /\ want[g] \in Texts
            /\ pc[g] = "waiting" => awaits[g] # 0
          BY <1>2, Facts DEF IInv, Awaited, TypeOK
      <4>2. pc[g] = "opening" => want[g] \in Told'
          BY <1>4, <1>6, <3>1, <3>2, <4>1, Numbers DEF Shown, OnItsWay
      <4>3. pc[g] = "waiting" /\ awaits[g] = pending => want[g] \in Told'
          BY <1>1, <1>4, <3>1, <3>2, <4>1 DEF Shown
      <4>4. pc[g] = "returned" => want[g] \in Told'
          BY <3>1, <3>2 DEF Shown
      <4>. QED BY <1>1, <2>1, <4>1, <4>2, <4>3, <4>4
    <3>. QED BY <1>1, <3>1, <3>3, <3>4 DEF Shown
  <2>. QED BY <1>1, <2>2, <2>3, <2>4, <2>5, <2>6 DEF IInv
<1>. QED BY <1>5, <1>6

\* VS Code closes the virtual document when nothing is opening it.
LEMMA TimesOutKeeps ==
    ASSUME IInv, VirtualDocumentTimesOut
    PROVE  IInv'
<1>1. /\ vs # Closed /\ target = NoDocument /\ \A g \in Getters : pc[g] # "opening"
      /\ vs' = Closed
      /\ UNCHANGED <<current, docs, pending, sent, target, loading, wire, pc, want, awaits, seen, gaveUp, paced>>
    BY DEF VirtualDocumentTimesOut, docVars, updateVars, getVars, ghostVars
<1>2. TypeOK /\ Finished' = Finished
    BY <1>1 DEF IInv, Finished
<1>3. TypeOK'
    BY <1>1, <1>2 DEF TypeOK
<1>4. Texted' /\ Awaited' /\ Loads' /\ Latest'
    BY <1>1, <1>2 DEF IInv, Texted, Awaited, Loads, Latest
<1>5. Shown => Shown'
    BY <1>1 DEF Shown, Told
<1>. QED BY <1>1, <1>3, <1>4, <1>5 DEF IInv

\* An update begins: a document for it if there is none, its promise, and a load
\* if VS Code does not hold the document.
LEMMA UpdateKeeps ==
    ASSUME IInv, UpdateDocumentText
    PROVE  IInv'
<1>1. /\ target = NoDocument /\ sent < MaxUpdates /\ (paced => wire = <<>>)
      /\ sent' = sent + 1 /\ target' = current' /\ pending' = sent'
      /\ UNCHANGED <<vs, wire, pc, want, awaits, seen, gaveUp, paced>>
    BY DEF UpdateDocumentText, getVars, ghostVars
<1>2. /\ TypeOK /\ sent \in Nat /\ Finished = sent /\ MaxUpdates \in Nat /\ Len(docs) \in Nat
      /\ sent + 1 \in Updates /\ NoDocument = 0
    BY <1>1, Facts, Numbers DEF Updates
<1>3. /\ current' \in 1 .. Len(docs') /\ docs' \in Seq([checksum : Updates, content : Texts])
      /\ IF current = NoDocument
         THEN /\ Len(docs') = Len(docs) + 1 /\ current' = Len(docs')
              /\ \A d \in 1 .. Len(docs) : docs'[d] = docs[d]
              /\ docs'[current'].content = 0 /\ docs'[current'].checksum = sent + 1
         ELSE docs' = docs /\ current' = current
  <2>1. CASE current = NoDocument
    <3>1. docs' = Append(docs, [checksum |-> sent + 1, content |-> 0]) /\ current' = Len(docs')
        BY <1>1, <2>1 DEF UpdateDocumentText, AddDocument
    <3>2. PICK r \in [checksum : Updates, content : Texts] :
              r = [checksum |-> sent + 1, content |-> 0] /\ r.content = 0 /\ r.checksum = sent + 1
        BY <1>2, Numbers, DocumentFacts
    <3>3. docs' = Append(docs, r) /\ docs \in Seq([checksum : Updates, content : Texts])
        BY <1>2, <3>1, <3>2 DEF TypeOK
    <3>4. /\ docs' \in Seq([checksum : Updates, content : Texts]) /\ Len(docs') = Len(docs) + 1
          /\ docs'[Len(docs) + 1] = r /\ \A d \in 1 .. Len(docs) : docs'[d] = docs[d]
        BY <3>3
    <3>. QED BY <1>2, <2>1, <3>1, <3>2, <3>4
  <2>2. CASE current # NoDocument
    <3>1. docs' = docs /\ current' = current
        BY <2>2 DEF UpdateDocumentText
    <3>. QED BY <1>2, <2>2, <3>1, Facts DEF TypeOK
  <2>. QED BY <2>1, <2>2
<1>4. loading' = IF vs = Closed /\ loading = Closed THEN Provided ELSE loading
    BY DEF UpdateDocumentText, Provided
<1>5. /\ current = NoDocument => Provided = 0
      /\ current # NoDocument => Provided = docs[current].content /\ current \in 1 .. Len(docs)
      /\ Provided \in Texts /\ Provided <= Finished
    BY <1>2, Facts, Numbers DEF Provided, IInv, Texted
<1>6. target' # NoDocument /\ Finished' = sent
    BY <1>1, <1>2, <1>3 DEF Finished
<1>7. TypeOK'
  <2>1. /\ current' \in 0 .. Len(docs') /\ target' \in 0 .. Len(docs')
        /\ pending' \in 0 .. sent' /\ sent' \in 0 .. MaxUpdates
      BY <1>1, <1>2, <1>3 DEF TypeOK
  <2>2. loading' \in Texts \cup {Closed}
      BY <1>2, <1>4, <1>5 DEF TypeOK
  <2>. QED BY <1>1, <1>2, <1>3, <2>1, <2>2 DEF TypeOK
<1>8. Texted'
  <2>1. sent' > 0
      BY <1>1, <1>2
  <2>2. ASSUME NEW d \in 1 .. Len(docs')
        PROVE  /\ docs'[d].content <= Finished'
               /\ \/ docs'[d].content = docs'[d].checksum
                  \/ d = target' /\ docs'[d].content = 0 /\ docs'[d].checksum = sent'
    <3>1. CASE d \in 1 .. Len(docs)
        BY <1>1, <1>2, <1>3, <1>6, <3>1 DEF IInv, Texted
    <3>2. CASE d \notin 1 .. Len(docs)
        BY <1>1, <1>2, <1>3, <1>6, <3>2
    <3>. QED BY <3>1, <3>2
  <2>3. loading' # Closed => loading' <= Finished' /\ vs' = Closed
      BY <1>1, <1>2, <1>4, <1>5, <1>6 DEF IInv, Texted
  <2>. QED BY <1>1, <1>2, <1>6, <2>1, <2>2, <2>3 DEF IInv, Texted
<1>9. Awaited'
    BY <1>1, <1>2, <1>6 DEF IInv, Awaited
<1>10. Loads'
    BY <1>2, <1>3, <1>4, <1>5 DEF IInv, Loads
<1>11. Latest'
    BY <1>6 DEF Latest
<1>12. ASSUME paced PROVE Shown'
  <2>1. Shown /\ wire = <<>> /\ wire' = <<>> /\ \A k : wire # <<k>>
      BY <1>1, <1>12 DEF IInv
  <2>2. Told' = Told
      BY <1>1 DEF Told
  <2>3. current' # NoDocument /\ docs'[current'].content # 0 =>
            docs'[current'].content \in Told' \/ vs' = Closed
      BY <1>1, <1>2, <1>3, <2>1, <2>2 DEF Shown, OnItsWay
  <2>4. ASSUME NEW g \in Getters
        PROVE  /\ pc'[g] = "opening" => want'[g] \in Told' \/ loading' = want'[g]
               /\ pc'[g] = "waiting" => want'[g] \in Told' \/ awaits'[g] # pending'
               /\ pc'[g] = "returned" => want'[g] \in Told'
    <3>1. pc[g] = "opening" => want[g] \in Told \/ loading = want[g]
        BY <2>1 DEF Shown, OnItsWay
    <3>2. pc[g] = "opening" /\ loading = want[g] => loading # Closed
        BY <1>2, Numbers, <3>1 DEF TypeOK
    <3>3. pc[g] = "waiting" => awaits[g] # sent + 1
        BY <1>2 DEF IInv, Awaited
    <3>4. pc[g] = "returned" => want[g] \in Told
        BY <2>1 DEF Shown
    <3>. QED BY <1>1, <1>4, <2>2, <3>1, <3>2, <3>3, <3>4
  <2>. QED BY <1>1, <2>1, <2>3, <2>4 DEF Shown
<1>. QED BY <1>1, <1>7, <1>8, <1>9, <1>10, <1>11, <1>12 DEF IInv

\* The update is finished: its text is set and, if the document is still the
\* manager's, on its way.
LEMMA FinishKeeps ==
    ASSUME IInv, FinishUpdate
    PROVE  IInv'
<1>1. /\ target # NoDocument /\ vs # Closed
      /\ docs' = [docs EXCEPT ![target] = [checksum |-> sent, content |-> sent]]
      /\ target' = NoDocument
      /\ wire' = IF vs # Closed /\ Provided' # vs THEN Append(wire, Provided') ELSE wire
      /\ UNCHANGED <<current, pending, sent, vs, loading, pc, want, awaits, seen, gaveUp, paced>>
    BY DEF FinishUpdate, SetContent, FireDidChange, getVars, ghostVars
<1>2. /\ TypeOK /\ sent \in Nat /\ sent > 0 /\ Finished = sent - 1 /\ Finished' = sent
      /\ Len(docs) \in Nat /\ target \in 1 .. Len(docs) /\ sent \in Updates /\ sent \in Texts
      /\ NoDocument = 0 /\ loading = Closed /\ vs \in Texts /\ vs <= Finished
      /\ current \in {NoDocument, target} /\ pending \in {0, sent}
  <2>1. sent > 0 /\ loading = Closed /\ vs <= Finished /\ current \in {NoDocument, target} /\ pending \in {0, sent}
      BY <1>1 DEF IInv, Texted, Awaited
  <2>2. Finished' = sent
      BY <1>1 DEF Finished
  <2>. QED BY <1>1, <2>1, <2>2, Facts, Numbers DEF Updates, Texts
<1>3. /\ docs' \in Seq([checksum : Updates, content : Texts]) /\ Len(docs') = Len(docs)
      /\ docs'[target].content = sent /\ docs'[target].checksum = sent
      /\ \A d \in 1 .. Len(docs) : d # target => docs'[d] = docs[d]
  <2>1. PICK r \in [checksum : Updates, content : Texts] :
            r = [checksum |-> sent, content |-> sent] /\ r.content = sent /\ r.checksum = sent
      BY <1>2, DocumentFacts
  <2>2. docs' = [docs EXCEPT ![target] = r] /\ docs \in Seq([checksum : Updates, content : Texts])
      BY <1>1, <1>2, <2>1 DEF TypeOK
  <2>3. docs' \in Seq([checksum : Updates, content : Texts]) /\ Len(docs') = Len(docs)
      BY <1>2, <2>2
  <2>4. docs'[target] = r /\ \A d \in 1 .. Len(docs) : d # target => docs'[d] = docs[d]
      BY <1>2, <2>2
  <2>. QED BY <2>1, <2>3, <2>4
<1>4. Provided' = IF current = NoDocument THEN 0 ELSE sent
    BY <1>1, <1>2, <1>3 DEF Provided
<1>5. /\ wire' \in Seq(Texts) /\ Len(wire) \in Nat /\ Len(wire') \in Nat
      /\ \A i \in 1 .. Len(wire') : wire'[i] <= sent
      /\ current # NoDocument => wire' = Append(wire, sent) /\ wire' # <<>> /\ wire'[Len(wire')] = sent
  <2>1. PICK p \in Texts : p = Provided' /\ p <= sent /\ (current # NoDocument => p = sent)
      BY <1>2, <1>4, Numbers
  <2>2. wire \in Seq(Texts) /\ Len(wire) \in Nat /\ \A i \in 1 .. Len(wire) : wire[i] <= sent
    <3>1. \A i \in 1 .. Len(wire) : wire[i] \in Texts /\ wire[i] <= sent - 1
        BY <1>2, Facts DEF IInv, Texted
    <3>2. wire \in Seq(Texts) /\ Len(wire) \in Nat
        BY <1>2, Facts DEF TypeOK
    <3>3. \A i \in 1 .. Len(wire) : wire[i] <= sent
      <4> SUFFICES ASSUME NEW i \in 1 .. Len(wire) PROVE wire[i] <= sent
          OBVIOUS
      <4>1. wire[i] \in Nat /\ wire[i] <= sent - 1
          BY <3>1, Numbers
      <4>2. sent \in Nat
          BY <1>2
      <4>. QED BY <4>1, <4>2
    <3>. QED BY <3>2, <3>3
  <2>3. CASE Provided' # vs
    <3>1. wire' = Append(wire, p)
        BY <1>1, <2>1, <2>3
    <3>2. /\ wire' \in Seq(Texts) /\ Len(wire') = Len(wire) + 1 /\ wire'[Len(wire) + 1] = p
          /\ \A i \in 1 .. Len(wire) : wire'[i] = wire[i]
        BY <2>2, <3>1
    <3>3. Len(wire') > 0 /\ wire' # <<>> /\ wire'[Len(wire')] = p
        BY <2>2, <3>2
    <3>4. \A i \in 1 .. Len(wire') : wire'[i] <= sent
        BY <2>1, <2>2, <3>2
    <3>. QED BY <2>1, <2>2, <3>1, <3>2, <3>3, <3>4
  <2>4. CASE Provided' = vs
    <3>1. wire' = wire /\ current = NoDocument
        BY <1>1, <1>2, <1>4, <2>4
    <3>. QED BY <2>2, <3>1
  <2>. QED BY <2>3, <2>4
<1>6. TypeOK'
    BY <1>1, <1>2, <1>3, <1>5 DEF TypeOK
<1>7. Texted'
  <2>1. ASSUME NEW d \in 1 .. Len(docs')
        PROVE  docs'[d].content <= Finished' /\ docs'[d].content = docs'[d].checksum
    <3>1. CASE d = target
        BY <1>2, <1>3, <3>1
    <3>2. CASE d # target
      <4>1. docs'[d] = docs[d] /\ docs[d].content <= sent - 1 /\ docs[d].content \in Nat
            /\ docs[d].content = docs[d].checksum
          BY <1>2, <1>3, <3>2, Facts, Numbers DEF IInv, Texted
      <4>. QED BY <1>2, <4>1
    <3>. QED BY <3>1, <3>2
  <2>2. vs' <= Finished'
      BY <1>1, <1>2, Numbers
  <2>. QED BY <1>1, <1>2, <1>5, <2>1, <2>2 DEF Texted
<1>8. Awaited'
    BY <1>1, <1>2 DEF IInv, Awaited
<1>9. Loads' /\ Latest'
    BY <1>1, <1>2, <1>3, <1>5 DEF Loads, Latest
<1>10. ASSUME paced PROVE Shown'
  <2>1. Shown /\ wire = <<>>
      BY <1>1, <1>10 DEF IInv, Shown
  <2>2. Told' = Told
      BY <1>1 DEF Told
  <2>3. current # NoDocument => wire' = <<sent>>
      BY <1>5, <2>1
  <2>4. current' # NoDocument /\ docs'[current'].content # 0 =>
          \/ docs'[current'].content \in Told'
          \/ vs' = Closed
          \/ (OnItsWay(docs[current].content))'
    <3>1. current # NoDocument => docs'[current'].content = sent
        BY <1>1, <1>2, <1>3
    <3>2. current # NoDocument => pending = sent \/ sent \in Told
        BY <1>1, <1>2, <2>1 DEF Shown, Told
    <3>. QED BY <1>1, <2>2, <2>3, <3>1, <3>2 DEF OnItsWay
  <2>5. ASSUME NEW g \in Getters
        PROVE  /\ pc'[g] = "opening" => want'[g] \in Told'
               /\ pc'[g] = "waiting" => want'[g] \in Told' \/ awaits'[g] # pending'
               /\ pc'[g] = "returned" => want'[g] \in Told'
    <3>1. pc[g] \in {"opening", "waiting"} =>
              want[g] \in Nat /\ want[g] <= sent - 1 /\ want[g] # Closed /\ want[g] # pending
        BY <1>2, Numbers DEF IInv, Awaited, TypeOK
    <3>. QED BY <1>1, <1>2, <2>1, <2>2, <3>1 DEF Shown, OnItsWay
  <2>. QED BY <1>1, <2>4, <2>5 DEF Shown
<1>. QED BY <1>1, <1>6, <1>7, <1>8, <1>9, <1>10 DEF IInv

\* The document is closed: its waiters go on without the update.
LEMMA CloseKeeps ==
    ASSUME IInv, CloseDocument
    PROVE  IInv'
<1>1. /\ pc' = [g \in Getters |-> IF pc[g] = "waiting" /\ awaits[g] = pending THEN "returned" ELSE pc[g]]
      /\ pending' = 0 /\ current' = NoDocument
      /\ gaveUp' = gaveUp \cup {want[g] : g \in {h \in Getters : pc[h] \in {"opening", "waiting"}}}
      /\ UNCHANGED <<docs, sent, target, vs, loading, wire, want, awaits, seen, paced>>
    BY DEF CloseDocument, Release, updateVars, vsVars
<1>2. TypeOK /\ Finished' = Finished /\ sent \in Nat
    BY <1>1, Facts DEF Finished
<1>3. TypeOK'
  <2>1. gaveUp' \subseteq Texts
      BY <1>1, <1>2 DEF TypeOK
  <2>2. current' \in 0 .. Len(docs') /\ pending' \in 0 .. sent'
      BY <1>1, <1>2, Numbers, Facts
  <2>3. pc' \in [Getters -> {"idle", "opening", "waiting", "returned", "timedOut", "undefined"}]
      BY <1>1, <1>2 DEF TypeOK
  <2>. QED BY <1>1, <1>2, <2>1, <2>2, <2>3 DEF TypeOK
<1>4. Texted'
    BY <1>1, <1>2 DEF IInv, Texted
<1>5. Awaited' /\ Loads' /\ Latest'
    BY <1>1, <1>2 DEF IInv, Awaited, Loads, Latest
<1>6. ASSUME paced PROVE Shown'
  <2>1. Shown
      BY <1>6 DEF IInv
  <2>2. /\ Told \subseteq Told'
        /\ \A g \in Getters : pc[g] \in {"opening", "waiting"} => want[g] \in Told'
      BY <1>1 DEF Told
  <2>3. ASSUME NEW g \in Getters
        PROVE  pc'[g] \in {"opening", "waiting", "returned"} => want'[g] \in Told'
    <3>1. pc[g] = "returned" => want[g] \in Told'
        BY <2>1, <2>2 DEF Shown
    <3>. QED BY <1>1, <2>2, <3>1
  <2>4. target' # NoDocument => wire' = <<>> /\ current' # target'
      BY <1>1, <2>1 DEF Shown
  <2>. QED BY <1>1, <2>3, <2>4 DEF Shown
<1>. QED BY <1>1, <1>3, <1>4, <1>5, <1>6 DEF IInv

\* A call asks for the document: if the checksum is right its text is shown, on its
\* way, or being loaded.
LEMMA GetDocumentKeeps ==
    ASSUME IInv, NEW g \in Getters, NEW k \in Updates, GetDocument(g, k)
    PROVE  IInv'
<1>1. /\ pc[g] = "idle" /\ want' = [want EXCEPT ![g] = k]
      /\ k <= Finished
      /\ UNCHANGED <<current, docs, pending, sent, target, vs, wire, awaits, seen, gaveUp, paced>>
  <2>1. k \in 1 .. (IF target = NoDocument THEN sent ELSE sent - 1)
      BY DEF GetDocument
  <2>2. k <= Finished
      BY <2>1, Facts DEF Finished
  <2>. QED BY <2>2 DEF GetDocument, docVars, updateVars, ghostVars
<1>2. /\ TypeOK /\ Finished' = Finished /\ Finished \in 0 .. sent /\ k \in Texts /\ k # 0
      /\ k \in 1 .. Finished
    BY <1>1, Facts, Numbers DEF Finished
<1>3. CASE current # NoDocument /\ docs[current].checksum = k
  <2>1. /\ pc' = [pc EXCEPT ![g] = "opening"]
        /\ loading' = IF vs = Closed /\ loading = Closed THEN Provided ELSE loading
      BY <1>3 DEF GetDocument, RequestOpen
  <2>2. /\ current \in 1 .. Len(docs) /\ docs[current].content = k
        /\ Provided = k
    <3>1. current \in 1 .. Len(docs)
        BY <1>3, Facts
    <3>2. docs[current].content = k
      <4>1. CASE target = NoDocument
          BY <1>3, <3>1, <4>1, Facts DEF IInv, Texted
      <4>2. CASE target # NoDocument
          BY <1>1, <1>2, <1>3, <3>1, <4>2, Facts DEF IInv, Texted
      <4>. QED BY <4>1, <4>2
    <3>. QED BY <1>3, <3>1, <3>2 DEF Provided
  <2>3. TypeOK'
      BY <1>1, <1>2, <2>1, <2>2 DEF TypeOK
  <2>4. Texted'
      BY <1>1, <1>2, <2>1, <2>2 DEF IInv, Texted
  <2>5. Awaited'
      BY <1>1, <1>2, <2>1 DEF IInv, Awaited, TypeOK
  <2>6. Loads' /\ Latest'
      BY <1>1, <2>1, <2>2 DEF IInv, Loads, Latest
  <2>7. ASSUME paced PROVE Shown'
    <3>1. Shown /\ Told' = Told
        BY <1>1, <2>7 DEF IInv, Told
    <3>2. ASSUME NEW h \in Getters
          PROVE  pc'[h] = "opening" =>
                \/ want'[h] \in Told'
                \/ loading' = want'[h]
                \/ vs' # Closed /\ (OnItsWay(want[h]))'
      <4>1. CASE h = g
        <5>1. pc'[g] = "opening" /\ want'[g] = k
            BY <1>1, <1>2, <2>1 DEF TypeOK
        <5>2. CASE vs = Closed
          <6>1. loading' = k
              BY <1>2, <1>3, <2>1, <2>2, <5>2 DEF IInv, Loads
          <6>. QED BY <4>1, <5>1, <6>1
        <5>3. CASE vs # Closed
          <6>1. k \in Told \/ OnItsWay(k)
              BY <1>2, <1>3, <2>2, <3>1, <5>3 DEF Shown
          <6>. QED BY <1>1, <3>1, <4>1, <5>1, <5>3, <6>1 DEF OnItsWay
        <5>. QED BY <5>2, <5>3
      <4>2. CASE h # g
        <5>1. pc'[h] = pc[h] /\ want'[h] = want[h]
            BY <1>1, <1>2, <2>1, <4>2 DEF TypeOK
        <5>2. pc[h] = "opening" => want[h] # Closed
            BY <1>2, Numbers DEF TypeOK
        <5>3. pc[h] = "opening" =>
                \/ want[h] \in Told
                \/ loading = want[h]
                \/ vs # Closed /\ wire = <<want[h]>> /\ pending = want[h]
            BY <3>1 DEF Shown, OnItsWay
        <5>4. pc[h] = "opening" /\ loading = want[h] => loading' = want[h]
            BY <2>1, <5>2
        <5>. QED BY <1>1, <3>1, <5>1, <5>3, <5>4 DEF OnItsWay
      <4>. QED BY <4>1, <4>2
    <3>3. ASSUME NEW h \in Getters
          PROVE  /\ pc'[h] = "waiting" =>
                        \/ want'[h] \in Told'
                        \/ awaits'[h] # pending'
                        \/ pending' = want'[h] /\ wire' \in {<<>>, <<want'[h]>>}
                 /\ pc'[h] = "returned" => want'[h] \in Told'
        BY <1>1, <1>2, <2>1, <3>1 DEF Shown, TypeOK
    <3>4. current' # NoDocument /\ docs'[current'].content # 0 =>
            \/ docs'[current'].content \in Told'
            \/ vs' = Closed
            \/ (OnItsWay(docs[current].content))'
        BY <1>1, <3>1 DEF Shown, OnItsWay
    <3>5. gaveUp' = gaveUp
        BY <1>1
    <3>. QED BY <1>1, <3>1, <3>2, <3>3, <3>4, <3>5 DEF Shown
  <2>. QED BY <1>1, <2>3, <2>4, <2>5, <2>6, <2>7 DEF IInv
<1>4. CASE ~(current # NoDocument /\ docs[current].checksum = k)
  <2>1. pc' = [pc EXCEPT ![g] = "undefined"] /\ loading' = loading
      BY <1>4 DEF GetDocument
  <2>2. TypeOK'
      BY <1>1, <1>2, <2>1 DEF TypeOK
  <2>3. Texted' /\ Loads' /\ Latest'
      BY <1>1, <1>2, <2>1 DEF IInv, Texted, Loads, Latest
  <2>4. Awaited'
      BY <1>1, <1>2, <2>1 DEF IInv, Awaited, TypeOK
  <2>5. Shown => Shown'
      BY <1>1, <1>2, <2>1 DEF Shown, Told, OnItsWay, TypeOK
  <2>. QED BY <1>1, <2>2, <2>3, <2>4, <2>5 DEF IInv
<1>. QED BY <1>3, <1>4

\* The document is open: the call goes on, or waits for the pending promise.
LEMMA GetOpenedKeeps ==
    ASSUME IInv, NEW g \in Getters, GetOpened(g)
    PROVE  IInv'
<1>1. /\ pc[g] = "opening" /\ vs # Closed
      /\ UNCHANGED <<current, docs, pending, sent, target, vs, loading, wire, want, seen, gaveUp, paced>>
    BY DEF GetOpened, docVars, updateVars, vsVars, ghostVars
<1>2. PICK l \in {"waiting", "returned"} :
        /\ pc' = [pc EXCEPT ![g] = l]
        /\ IF l = "waiting" THEN pending # 0 /\ awaits' = [awaits EXCEPT ![g] = pending]
           ELSE pending = 0 /\ awaits' = awaits
    BY DEF GetOpened
<1>3. /\ TypeOK /\ Finished' = Finished /\ sent \in Nat /\ pending \in 0 .. sent /\ pending \in Texts
      /\ loading = Closed /\ want[g] \in Texts /\ want[g] # 0
  <2>1. TypeOK /\ Finished' = Finished /\ sent \in Nat /\ sent <= MaxUpdates /\ MaxUpdates \in Nat
      BY <1>1, Facts, Numbers DEF Finished
  <2>2. pending \in 0 .. sent /\ pending \in Texts
      BY <2>1 DEF TypeOK, Texts
  <2>3. loading = Closed
      BY <1>1 DEF IInv, Texted
  <2>4. want[g] \in 1 .. Finished /\ want[g] \in Texts
      BY <1>1, <2>1 DEF IInv, Awaited, TypeOK
  <2>. QED BY <2>1, <2>2, <2>3, <2>4, Facts
<1>4. TypeOK'
    BY <1>1, <1>2, <1>3 DEF TypeOK
<1>5. Texted' /\ Loads' /\ Latest'
    BY <1>1, <1>3 DEF IInv, Texted, Loads, Latest
<1>6. Awaited'
  <2>1. \A h \in Getters : pc'[h] \in {"opening", "waiting"} => want'[h] \in 1 .. Finished'
      BY <1>1, <1>2, <1>3 DEF IInv, Awaited, TypeOK
  <2>2. \A h \in Getters : pc'[h] = "waiting" => awaits'[h] \in 1 .. sent'
      BY <1>1, <1>2, <1>3 DEF IInv, Awaited, TypeOK
  <2>. QED BY <1>1, <2>1, <2>2 DEF IInv, Awaited
<1>7. ASSUME paced PROVE Shown'
  <2>1. Shown /\ Told' = Told
      BY <1>1, <1>7 DEF IInv, Told
  <2>2. want[g] \in Told \/ OnItsWay(want[g])
      BY <1>1, <1>3, <2>1, Numbers DEF Shown
  <2>3. /\ pc'[g] = l /\ want'[g] = want[g] /\ (l = "waiting" => awaits'[g] = pending)
        /\ \A h \in Getters : h # g => pc'[h] = pc[h] /\ awaits'[h] = awaits[h]
      BY <1>1, <1>2, <1>3 DEF TypeOK
  <2>4. ASSUME NEW h \in Getters
        PROVE  /\ pc'[h] = "opening" =>
                    \/ want'[h] \in Told'
                    \/ loading' = want'[h]
                    \/ vs' # Closed /\ wire' = <<want'[h]>> /\ pending' = want'[h]
               /\ pc'[h] = "waiting" =>
                    \/ want'[h] \in Told'
                    \/ awaits'[h] # pending'
                    \/ pending' = want'[h] /\ wire' \in {<<>>, <<want'[h]>>}
               /\ pc'[h] = "returned" => want'[h] \in Told'
    <3>1. CASE h = g
        BY <1>1, <1>2, <1>3, <2>1, <2>2, <2>3, <3>1 DEF OnItsWay
    <3>2. CASE h # g
        BY <1>1, <2>1, <2>3, <3>2 DEF Shown, OnItsWay
    <3>. QED BY <3>1, <3>2
  <2>5. current' # NoDocument /\ docs'[current'].content # 0 =>
            \/ docs'[current'].content \in Told'
            \/ vs' = Closed
            \/ wire' = <<docs'[current'].content>> /\ pending' = docs'[current'].content
      BY <1>1, <2>1 DEF Shown, OnItsWay
  <2>6. target' # NoDocument =>
          wire' = <<>> /\ (current' = target' => pending' = sent' \/ sent' \in gaveUp')
      BY <1>1, <2>1 DEF Shown
  <2>. QED BY <2>4, <2>5, <2>6 DEF Shown, OnItsWay
<1>. QED BY <1>1, <1>4, <1>5, <1>6, <1>7 DEF IInv

\* The timer forgets whatever promise is pending.
LEMMA GetTimesOutKeeps ==
    ASSUME IInv, NEW g \in Getters, GetTimesOut(g)
    PROVE  IInv'
<1>1. /\ pc[g] = "waiting" /\ pc' = [pc EXCEPT ![g] = "timedOut"]
      /\ gaveUp' = gaveUp \cup {awaits[g], pending} /\ pending' = 0
      /\ UNCHANGED <<current, docs, sent, target, vs, loading, wire, want, awaits, seen, paced>>
    BY DEF GetTimesOut, updateVars, vsVars
<1>2. /\ TypeOK /\ Finished' = Finished /\ sent \in Nat /\ pending \in Texts /\ awaits[g] \in Texts
      /\ pending' \in 0 .. sent'
  <2>1. TypeOK /\ Finished' = Finished /\ sent \in Nat /\ sent <= MaxUpdates /\ MaxUpdates \in Nat
      BY <1>1, Facts, Numbers DEF Finished
  <2>2. pending \in Texts /\ awaits[g] \in Texts
      BY <2>1 DEF TypeOK, Texts
  <2>. QED BY <1>1, <2>1, <2>2
<1>3. TypeOK'
    BY <1>1, <1>2 DEF TypeOK
<1>4. Texted' /\ Loads' /\ Latest'
    BY <1>1, <1>2 DEF IInv, Texted, Loads, Latest
<1>5. Awaited'
    BY <1>1, <1>2 DEF IInv, Awaited, TypeOK
<1>6. ASSUME paced PROVE Shown'
  <2>1. Shown /\ Told \subseteq Told' /\ pending \in Told' /\ gaveUp \subseteq gaveUp' /\ pending \in gaveUp'
      BY <1>1, <1>6 DEF IInv, Told
  <2>2. ASSUME NEW h \in Getters
        PROVE  /\ pc'[h] = "opening" => want'[h] \in Told' \/ loading' = want'[h]
               /\ pc'[h] = "waiting" => want'[h] \in Told' \/ awaits'[h] # pending'
               /\ pc'[h] = "returned" => want'[h] \in Told'
    <3>1. pc'[h] = IF h = g THEN "timedOut" ELSE pc[h]
        BY <1>1, <1>2 DEF TypeOK
    <3>2. pc[h] = "waiting" => awaits[h] # 0
        BY <1>2 DEF IInv, Awaited
    <3>. QED BY <1>1, <2>1, <3>1, <3>2 DEF Shown, OnItsWay
  <2>3. current' # NoDocument /\ docs'[current'].content # 0 =>
            docs'[current'].content \in Told' \/ vs' = Closed
      BY <1>1, <2>1 DEF Shown, OnItsWay
  <2>4. target' # NoDocument =>
          wire' = <<>> /\ (current' = target' => sent' \in gaveUp')
      BY <1>1, <2>1 DEF Shown
  <2>. QED BY <2>2, <2>3, <2>4 DEF Shown
<1>. QED BY <1>1, <1>3, <1>4, <1>5, <1>6 DEF IInv

-----------------------------------------------------------------------------
\* Every step of VS Code, of an update and of a call keeps the invariant.
LEMMA NextIInv == IInv /\ [Next]_vars => IInv'
<1> SUFFICES ASSUME IInv, [Next]_vars PROVE IInv'
    OBVIOUS
<1>1. CASE LoadDone \/ ApplyChange \/ VirtualDocumentTimesOut
    BY <1>1, LoadDoneKeeps, ApplyChangeKeeps, TimesOutKeeps
<1>2. CASE UpdateDocumentText \/ FinishUpdate \/ CloseDocument
    BY <1>2, UpdateKeeps, FinishKeeps, CloseKeeps
<1>3. ASSUME NEW g \in Getters,
             (\E k \in Updates : GetDocument(g, k)) \/ GetOpened(g) \/ GetTimesOut(g)
      PROVE  IInv'
    BY <1>3, GetDocumentKeeps, GetOpenedKeeps, GetTimesOutKeeps
<1>4. CASE UNCHANGED vars
  <2>. USE <1>4 DEF vars, docVars, updateVars, vsVars, getVars, ghostVars
  <2>1. TypeOK'
      BY DEF IInv, TypeOK
  <2>2. Texted' /\ Awaited' /\ Loads' /\ Latest'
      BY DEF IInv, Texted, Awaited, Loads, Latest, Finished
  <2>3. (paced => Shown)'
      BY DEF IInv, Shown, Told, OnItsWay
  <2>. QED BY <2>1, <2>2, <2>3 DEF IInv
<1>. QED BY <1>1, <1>2, <1>3, <1>4 DEF Next

\* The invariant holds in every behaviour.
THEOREM SpecIInv == Spec => []IInv
<1>1. Init => IInv
    BY InitIInv
<1>2. IInv /\ [Next]_vars => IInv'
    BY NextIInv
<1>. QED BY <1>1, <1>2, PTL DEF Spec

\* Once no update is in progress and no change on its way, VS Code shows what the
\* manager holds, after any order of loads, updates and closes (Converges).
THEOREM ConvergesCorrect == Spec => []Converges
<1>1. IInv => Converges
    BY DEF IInv, Latest, Converges
<1>. QED BY <1>1, SpecIInv, PTL

\* Where updates come no faster than VS Code shows them, a call that got its document
\* finds that its text was shown, or given up by a timeout or a close
\* (SeenBeforeCall).
THEOREM SeenCorrect == Spec => []SeenBeforeCall
<1>1. IInv => SeenBeforeCall
    BY DEF IInv, Shown, Told, SeenBeforeCall, SeenBeforeEveryCall
<1>. QED BY <1>1, SpecIInv, PTL
=============================================================================
