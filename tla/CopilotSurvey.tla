----------------------------- MODULE CopilotSurvey -----------------------------
(***************************************************************************)
(* The survey for users of Copilot Chat                                    *)
(* (lsptoolshost/copilot/copilotChatSurvey.ts), offered once by whichever  *)
(* window comes to it.  globalState is shared by the windows, a value for  *)
(* each key; a window reads its copy, which follows later.                 *)
(***************************************************************************)
EXTENDS Naturals

CONSTANTS
    Windows,
    MaxReloads      \* bound, in Nat

VARIABLES
    globalState,    \* the two keys: shown, and whether snoozedUntil is ahead
    copy,           \* of globalState, in each window
    survey,         \* how far registerCopilotChatSurvey is in each window
    server,         \* the state of the window's language server
    listening,      \* whenProjectInitialized has a listener
    completed,      \* and its promise is resolved
    chosen,         \* an explicit choice was made in some window
    reloads

surveyVars == <<globalState, copy, survey, server, listening, completed, chosen, reloads>>

NotAgain(w) == copy[w].shown \/ copy[w].snoozed

Goes(w, step) == survey' = [survey EXCEPT ![w] = step]

\* registerCopilotChatSurvey: the initialization is observed before the probe is awaited.
Registers(w) ==
    /\ survey[w] = "starting"
    /\ Goes(w, IF NotAgain(w) THEN "ended" ELSE "probing")
    /\ completed' = [completed EXCEPT ![w] = ~NotAgain(w) /\ server[w] = "complete"]
    /\ listening' = [listening EXCEPT ![w] = ~NotAgain(w) /\ server[w] # "complete"]
    /\ UNCHANGED <<globalState, copy, server, chosen, reloads>>

\* The server starts, has initialized its projects, or stops.
ServerStateChanges(w, state) ==
    /\ server[w] # state
    /\ server' = [server EXCEPT ![w] = state]
    /\ IF state = "complete" /\ listening[w]
       THEN /\ completed' = [completed EXCEPT ![w] = TRUE]
            /\ listening' = [listening EXCEPT ![w] = FALSE]
       ELSE UNCHANGED <<completed, listening>>
    /\ UNCHANGED <<globalState, copy, survey, chosen, reloads>>

\* The finally of registerSurveyWhenChatAvailable.
Ends(w) == Goes(w, "ended") /\ listening' = [listening EXCEPT ![w] = FALSE]

\* isCopilotChatAvailable, which never throws.
Probed(w, available) ==
    /\ survey[w] = "probing"
    /\ IF available THEN Goes(w, "waiting") /\ UNCHANGED listening ELSE Ends(w)
    /\ UNCHANGED <<globalState, copy, server, completed, chosen, reloads>>

\* What another window wrote meanwhile is looked at again.
Prompts(w) ==
    /\ survey[w] = "waiting" /\ completed[w]
    /\ IF NotAgain(w) THEN Ends(w) ELSE Goes(w, "asking") /\ UNCHANGED listening
    /\ UNCHANGED <<globalState, copy, server, completed, chosen, reloads>>

\* globalState.update: of the key only.
Updated(w, key) ==
    /\ globalState' = [globalState EXCEPT ![key] = TRUE]
    /\ copy' = [copy EXCEPT ![w][key] = TRUE]

MarkSurveyShown(w) == Updated(w, "shown")

\* Mutant: one key holds both, and is written as the window knows it.
SnoozeWhole(w) ==
    /\ globalState' = [shown |-> copy[w].shown, snoozed |-> TRUE]
    /\ copy' = [copy EXCEPT ![w].snoozed = TRUE]

SnoozeSurvey(w) == Updated(w, "snoozed")

\* The toast is answered: the link opens later, "Not Now" retires the survey, and a toast
\* that is closed is snoozed; showInformationMessage may also throw.
Answered(w, answer) ==
    /\ survey[w] = "asking"
    /\ CASE answer = "takeAction" -> Goes(w, "opening") /\ UNCHANGED <<globalState, copy, chosen, listening>>
         [] answer = "dismiss" -> MarkSurveyShown(w) /\ chosen' = TRUE /\ Ends(w)
         [] answer = "none" -> SnoozeSurvey(w) /\ Ends(w) /\ UNCHANGED chosen
         [] answer = "throws" -> Ends(w) /\ UNCHANGED <<globalState, copy, chosen>>
    /\ UNCHANGED <<server, completed, reloads>>

\* openExternal returns.
OpenedExternal(w, opened) ==
    /\ survey[w] = "opening"
    /\ IF opened THEN MarkSurveyShown(w) /\ chosen' = TRUE ELSE SnoozeSurvey(w) /\ UNCHANGED chosen
    /\ Ends(w)
    /\ UNCHANGED <<server, completed, reloads>>

\* VS Code tells the window what others wrote.
Synchronized(w) ==
    /\ copy[w] # globalState
    /\ copy' = [copy EXCEPT ![w] = globalState]
    /\ UNCHANGED <<globalState, survey, server, listening, completed, chosen, reloads>>

\* The hour of ignoredSnoozeMs is over.
SnoozeElapses ==
    /\ globalState.snoozed
    /\ globalState' = [globalState EXCEPT !.snoozed = FALSE]
    /\ copy' = [w \in Windows |-> [copy[w] EXCEPT !.snoozed = FALSE]]
    /\ UNCHANGED <<survey, server, listening, completed, chosen, reloads>>

\* A window is closed at any step, and opened again.
Reloads(w) ==
    /\ reloads < MaxReloads /\ reloads' = reloads + 1
    /\ Goes(w, "starting")
    /\ copy' = [copy EXCEPT ![w] = globalState]
    /\ server' = [server EXCEPT ![w] = "stopped"]
    /\ listening' = [listening EXCEPT ![w] = FALSE]
    /\ completed' = [completed EXCEPT ![w] = FALSE]
    /\ UNCHANGED <<globalState, chosen>>

-----------------------------------------------------------------------------
None == [shown |-> FALSE, snoozed |-> FALSE]

Init ==
    /\ globalState = None /\ copy = [w \in Windows |-> None]
    /\ survey = [w \in Windows |-> "starting"]
    /\ server = [w \in Windows |-> "stopped"]
    /\ listening = [w \in Windows |-> FALSE] /\ completed = listening
    /\ chosen = FALSE /\ reloads = 0

Next ==
    \/ \E w \in Windows : Registers(w) \/ Prompts(w) \/ Synchronized(w) \/ Reloads(w)
    \/ \E w \in Windows, state \in {"stopped", "started", "complete"} : ServerStateChanges(w, state)
    \/ \E w \in Windows, good \in BOOLEAN : Probed(w, good) \/ OpenedExternal(w, good)
    \/ \E w \in Windows, answer \in {"takeAction", "dismiss", "none", "throws"} : Answered(w, answer)
    \/ SnoozeElapses

Spec == Init /\ [][Next]_surveyVars

-----------------------------------------------------------------------------
\* The survey is retired by an explicit choice, by nothing else, and for good, whatever
\* another window writes (copilotChatSurvey.ts:12-13, 27).
RetiredByChoice == globalState.shown = chosen

\* An initialization that completes while the probe is under way is not missed (51-53), and
\* no listener outlives the offer (64-66).
InitializationSeen ==
    \A w \in Windows :
        /\ survey[w] \in {"probing", "waiting"} => listening[w] \/ completed[w]
        /\ survey[w] \in {"probing", "waiting"} /\ server[w] = "complete" => completed[w]
        /\ survey[w] \in {"ended", "asking", "opening"} => ~listening[w]

SurveyKept == RetiredByChoice /\ InitializationSeen
=============================================================================
