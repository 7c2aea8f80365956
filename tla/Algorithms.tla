----------------------------- MODULE Algorithms -----------------------------
(* The algorithms that keep no state, each evaluated on an input of its own: the
   step from no input to one is a call, and correctness is a predicate of the
   input (ProcessPicker, DotnetHost, LanguageFeatures,
   RazorEndpoints).                         *)
CONSTANTS
    Inputs,         \* a set of inputs for each task
    NoInput

VARIABLE input

Picker == INSTANCE ProcessPicker
Host == INSTANCE DotnetHost
Language == INSTANCE LanguageFeatures
Razor == INSTANCE RazorEndpoints

Init == input = NoInput

Call(task) ==
    /\ input = NoInput
    /\ input' \in Inputs[task]

Next == \E task \in DOMAIN Inputs : Call(task)

Spec == Init /\ [][Next]_input

\* A result is what the reference of its algorithm says (each Correct of the modules).
AlgorithmsCorrect ==
    input # NoInput =>
        CASE input.task \in {"local", "remote"} -> Picker!PickerCorrect(input)
          [] input.task \in {"platform", "dotnet", "solution"} -> Host!HostCorrect(input)
          [] input.task \in {"formatting", "htmlCompletion", "endpoint", "titles"} ->
                 Razor!EndpointCorrect(input)
          [] OTHER -> Language!FeatureCorrect(input)
=============================================================================
