-------------------------- MODULE MCPackageInstall --------------------------
(***************************************************************************)
(* PackageInstall with a debugger and OmniSharp of two files each.  Either *)
(* two windows meet over the debugger, with OmniSharp installed before     *)
(* them, or one window is alone and installs both.                         *)
(***************************************************************************)
EXTENDS PackageInstall, TLC

CONSTANTS w1, w2, debugger, omnisharp

VARIABLE present    \* the windows that are ever opened

MCPackageList == <<debugger, omnisharp>>
MCIdOf == debugger :> "Debugger" @@ omnisharp :> "OmniSharp"

\* What another window left that had installed these packages.
Installed(packages) ==
    /\ folder = packages /\ lock = packages
    /\ content = [p \in Packages |-> [f \in Files |-> IF p \in packages THEN "good" ELSE "none"]]

MCInit ==
    /\ \/ present = Windows /\ Installed({omnisharp})
       \/ present = {w1} /\ Installed({})
    /\ begin = {} /\ complete = FALSE
    /\ pc = [w \in Windows |-> "closed"] /\ todo = [w \in Windows |-> {}]
    /\ invalid = [w \in Windows |-> 0] /\ buffer = [w \in Windows |-> "good"]
    /\ next = [w \in Windows |-> 1] /\ writes = [w \in Windows |-> {}]
    /\ status = [w \in Windows |-> NoResult]
    /\ closes = 0 /\ lost = {}

MCNext ==
    /\ Next /\ UNCHANGED present
    /\ \A w \in Windows \ present : pc'[w] = "closed"

MCSpec == MCInit /\ [][MCNext]_<<vars, present>> /\ Fairness
=============================================================================
