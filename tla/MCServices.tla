----------------------------- MODULE MCServices -----------------------------
(* Services with two documents and three lists, two of a key each that holds two *)
(* projects and the list of a miscellaneous file; two captures; two launches.    *)
EXTENDS Services, TLC

CONSTANTS d1, d2, k1, k2, misc, c1, c2, l1, l2

MCLists ==
    {[key |-> k1, n |-> 2, default |-> 1, misc |-> FALSE],
     [key |-> k2, n |-> 2, default |-> 2, misc |-> FALSE],
     [key |-> misc, n |-> 1, default |-> 1, misc |-> TRUE]}

LaunchSymmetry == Permutations(Launches)
=============================================================================
