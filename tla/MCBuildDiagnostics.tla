--------------------------- MODULE MCBuildDiagnostics ---------------------------
(* BuildDiagnostics with two files and a diagnostic of each kind of code, one  *)
(* of the compiler's being build-only.                                         *)
EXTENDS BuildDiagnostics

CONSTANTS f1, f2

MCDiags == {"CS0001", "CS0002", "CA0001", "NETSDK1", "noCode"}
MCCodeOf ==
    [d \in MCDiags |->
        CASE d = "CA0001" -> "analyzer" [] d = "NETSDK1" -> "projectSystem" [] d = "noCode" -> "none" [] OTHER -> "compiler"]
MCBuildOnly == {"CS0002"}

\* A report of the one file, of the other, of both, and of none.
MCReports ==
    {[f \in {f1} |-> MCDiags], [f \in {f1, f2} |-> {"CS0001", "CS0002", "CA0001"}],
     [f \in {f2} |-> {"CA0001"}], NoReport}
=============================================================================
