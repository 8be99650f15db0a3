------------------------------ MODULE MCOffices ------------------------------
(* A small instance of the back offices.  The records of one office are    *)
(* never compared with another's, so that the configuration gives them the *)
(* same names, and one permutation of the names permutes them all.         *)
EXTENDS Offices, TLC

\* A tie, three to one with a quorum, and the same without.
Figures ==
    {[for |-> 1, against |-> 1, abstain |-> 0, present |-> 50],
     [for |-> 3, against |-> 0, abstain |-> 1, present |-> 60],
     [for |-> 3, against |-> 0, abstain |-> 1, present |-> 49]}

Interchangeable ==
    Permutations(Handlers)
    \union Permutations(Runs \union Leaves \union People \union Directors)
=============================================================================
