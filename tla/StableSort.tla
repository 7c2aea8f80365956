------------------------------ MODULE StableSort ------------------------------
(* The stable sort of JavaScript's Array.sort: Precedes(a, b) says that the
   comparison of a and b is negative.                                         *)
EXTENDS Naturals, Sequences, FiniteSets

StableSort(s, Precedes(_, _)) ==
    LET Place(i) == 1 + Cardinality({j \in DOMAIN s : \/ Precedes(s[j], s[i])
                                                      \/ j < i /\ ~Precedes(s[i], s[j])})
    IN  [p \in DOMAIN s |-> s[CHOOSE i \in DOMAIN s : Place(i) = p]]
=============================================================================
